---- MODULE Spec2Model ----
(***************************************************************************)
(* A model of Toy ASI-ARCH (alessoh/ASI-GO-toy): the orchestrator's run    *)
(* loop (main.py), the execution sandbox (engineer.py), the result         *)
(* analyzer (analyst.py) and the insight store (cognition_base.py).        *)
(*                                                                         *)
(* The module holds several specifications over one set of variables:      *)
(*   Spec         the run loop: iterations, experiments, interrupt, resume *)
(*   SpecBest     update_best_results over uninterrupted iterations        *)
(*   SpecRecent   the experiment files and get_recent_experiments          *)
(*   SpecStore    the insight store: add_insight, get_relevant_insights    *)
(*   SpecSandbox  one sandbox execution (_execute_windows), step by step   *)
(*   SpecCompare  _compare_with_recent as a function of its inputs         *)
(*   SpecScore    _calculate_score as a function of its inputs             *)
(*   SpecHypotheses  generate_hypotheses (researcher.py) and its oracle    *)
(*   SpecRounds   generate_hypotheses round after round, with fairness     *)
(*   SpecFailure  _analyze_failure as a function of the error              *)
(*   SpecPatterns the pattern store: add_pattern                           *)
(*   SpecFailures the failure store: add_failure                           *)
(*   SpecLoop     the run loop with fairness of the process's steps        *)
(* A specification leaves the variables of the others unchanged.           *)
(***************************************************************************)
EXTENDS Integers, Sequences, FiniteSets, TLC

VARIABLES
    \* ---- the run loop (main.py) ----
    pc,                 \* position of the orchestrating process
    current_state,      \* self.current_state: iteration, total_experiments, best_results
    state_file,         \* current_state.json on disk
    exp_writes,         \* experiments/: id -> number of times save_experiment wrote it
    cur_iter,           \* research_iteration's local `iteration`
    hyp_n,              \* len(hypotheses[:EXPERIMENTS_PER_ITERATION])
    idx,                \* the for loop's index i
    result,             \* the result of execute_experiment for experiment idx
    analysis_score,     \* analysis["score"] for experiment idx
    iteration_results,  \* the experiments of this iteration
    exit_cause,         \* why the try block of run was left
    report_written,     \* generate_final_report ran in this process
    runs,               \* number of processes started on this workspace
    \* ---- experiment files and get_recent_experiments (main.py) ----
    rc_files,           \* ids of the experiment files, in creation order
    rc_out,             \* what get_recent_experiments returned last
    rc_n,               \* its argument n
    \* ---- the insight store (cognition_base.py) ----
    insights,           \* self.insights
    now,                \* the clock datetime.now() reads, in ticks
    last_add,           \* what the last add_insight call did
    last_query,         \* what the last get_relevant_insights call did
    insights_file,      \* insights.json, the document _save_json last wrote
    \* ---- one sandbox execution (engineer.py) ----
    sb_pc,              \* position inside _execute_windows
    proc,               \* the subprocess: none, running, exited (unreaped), reaped
    killed,             \* proc.kill() was called
    elapsed,            \* seconds since Popen
    child_stdout,       \* what the subprocess wrote to stdout
    memory_used,        \* peak_memory - initial_memory, MB
    sb_result,          \* the result dictionary
    sb_runs,            \* sandbox executions so far
    popen_calls,        \* subprocess.Popen calls of this execution
    \* ---- _compare_with_recent (analyst.py) ----
    cmp_recent,         \* recent_experiments, newest first
    cmp_current,        \* the current result's metrics.execution_time
    cmp_out,            \* the comparison returned
    \* ---- _calculate_score (analyst.py) ----
    sc_result,          \* the result that is scored
    sc_expected,        \* what _check_expected_outcomes returns for it
    sc_score,           \* the score returned, in tenths; -1 before the call
    \* ---- generate_hypotheses (researcher.py) ----
    gh_objective,       \* _classify_objective(objective)
    gh_recent,          \* recent_experiments
    gh_outcome,         \* how the oracle call ends
    gh_reply,           \* the oracle's reply, when it gives one
    gh_candidates,      \* the hypotheses generated, in generation order, scored
    gh_out,             \* what generate_hypotheses returned
    \* ---- _analyze_failure (analyst.py) ----
    fa_error,           \* result["error"] of the failed result
    fa_analysis,        \* what _analyze_failure did with it
    \* ---- the pattern store (cognition_base.py) ----
    patterns,           \* self.patterns: for each type its list of records
    pattern_calls,      \* for each type the add_pattern calls made
    pt_call,            \* the last add_pattern call
    \* ---- the failure store (cognition_base.py) ----
    failures,           \* self.knowledge["failures"]: for each type its records
    fl_call             \* the last add_failure call

runVars == <<pc, current_state, state_file, exp_writes, cur_iter, hyp_n, idx, result,
             analysis_score, iteration_results, exit_cause, report_written, runs>>
recentVars == <<rc_files, rc_out, rc_n>>
storeVars == <<insights, now, last_add, last_query, insights_file>>
sandboxVars == <<sb_pc, proc, killed, elapsed, child_stdout, memory_used, sb_result,
                 sb_runs, popen_calls>>
compareVars == <<cmp_recent, cmp_current, cmp_out>>
scoreVars == <<sc_result, sc_expected, sc_score>>
hypVars == <<gh_objective, gh_recent, gh_outcome, gh_reply, gh_candidates, gh_out>>
faVars == <<fa_error, fa_analysis>>
patVars == <<patterns, pattern_calls, pt_call>>
flVars == <<failures, fl_call>>
vars == <<runVars, recentVars, storeVars, sandboxVars, compareVars, scoreVars, hypVars,
          faVars, patVars, flVars>>

(***************************************************************************)
(* Values shared by the specifications.                                    *)
(***************************************************************************)

\* Python's None, and a text: a sequence of whitespace-separated words.
None == [some |-> FALSE, text |-> <<>>]
Some(t) == [some |-> TRUE, text |-> t]

\* float('inf'), for a metric a result does not carry.
Inf == 1000000

Min(a, b) == IF a < b THEN a ELSE b

SeqToSet(s) == {s[k] : k \in 1..Len(s)}

\* s[:n]
Take(s, n) == SubSeq(s, 1, Min(n, Len(s)))

(***************************************************************************)
(* Texts.  A text is a sequence of words; the words below are the ones the *)
(* error messages of the program are made of.  A keyword test              *)
(* (`"timeout" in error.lower()`) is a test on the lower-cased words: in   *)
(* these texts a keyword occurs only as a whole word.                      *)
(***************************************************************************)

\* str.lower() on one word
LowerWord(w) ==
    CASE w = "Execution" -> "execution"
      [] w = "Memory"    -> "memory"
      [] w = "Timeout"   -> "timeout"
      [] w = "A"         -> "a"
      [] w = "Name"      -> "name"
      [] OTHER           -> w

\* text.lower()
Lower(t) == [k \in 1..Len(t) |-> LowerWord(t[k])]

\* kw in text   (case-sensitive, as Python's `in`)
Contains(t, kw) == \E k \in 1..Len(t) : t[k] = kw

\* engineer.py:304   f"Execution timeout ({MAX_EXECUTION_TIME}s)"
TimeoutText == <<"Execution", "timeout", "(30s)">>
\* engineer.py:284   f"Memory limit exceeded: {memory_used:.1f}MB"
MemoryText == <<"Memory", "limit", "exceeded:", "1100.0MB">>
\* engineer.py:307   f"Execution failed: {str(e)}"
LaunchText == <<"Execution", "failed:", "oserror">>
\* str(e) of an exception the harness caught in the user code (engineer.py:188-189);
\* str(Exception()) is the empty text.
HarnessErrors == { <<"division", "by", "zero">>,
                   <<"name", "x", "is", "not", "defined">>,
                   <<>> }

(***************************************************************************)
(* engineer.py: the sandbox.                                               *)
(***************************************************************************)

\* Seconds a subprocess may run (config.py:36 sets 30; the model counts fewer).
MAX_EXECUTION_TIME == 2
\* MB (config.py:37)
MAX_MEMORY_MB == 1024
\* Sandbox executions the sandbox specification runs one after the other.
MaxSandboxRuns == 2

\* A line of stdout: a JSON object {"output": out, "error": err, ...}, another
\* JSON value (a number, a list), a line that is no JSON, or a blank line.
\* The "output" member is null, a text, a dictionary with the keys "result" and
\* "data" only, or a dictionary that has a "timing" member of its own.
\* The harness writes its own "timing" member beside "output" and "error"
\* (engineer.py:180-194); `timing` is its "total", in milliseconds.
LineTimingTotal == 250
ObjectLine(err, out) ==
    [kind |-> "object", error |-> err, output |-> out, timing |-> LineTimingTotal]
ValueLine == [kind |-> "value", error |-> None, output |-> "null", timing |-> 0]
TextLine == [kind |-> "text", error |-> None, output |-> "null", timing |-> 0]
BlankLine == [kind |-> "blank", error |-> None, output |-> "null", timing |-> 0]
OutputValues == {"null", "text", "dict", "dict_timing"}
\* output["timing"]["total"] of such a dictionary, in milliseconds
TimingTotal == 500

\* What a subprocess can have written to stdout when it exits: nothing, the
\* harness's line alone or after an incidental print, or no harness line.
LastLines == {ValueLine, TextLine}
               \cup {ObjectLine(None, o) : o \in OutputValues}
               \cup {ObjectLine(Some(e), "null") : e \in HarnessErrors}
Stdouts == {<<>>, <<BlankLine>>}
             \cup {<<l>> : l \in LastLines}
             \cup {<<TextLine, l>> : l \in LastLines}
             \cup {<<ObjectLine(None, "dict"), TextLine>>,
                   <<ObjectLine(None, "dict"), BlankLine>>}

\* memory_used values the parent can sample, in thousandths of a MB: below
\* and above the limit
MemorySamples == {50000, 2000000}

\* engineer.py:248-255.  output is "none" (None), "raw" (the stdout text) or
\* the "output" member of the harness's line.
InitialResult ==
    [success |-> FALSE, output |-> "none", error |-> None, memory_mb |-> 0]

\* bool(x) of an optional text: None and "" are false
Truthy(e) == e.some /\ Len(e.text) > 0

RECURSIVE StripLines(_)
\* stdout.strip().split('\n'): blank lines at both ends are dropped; a stdout
\* of blank lines only gives one empty line.
StripLines(out) ==
    IF out = <<>> THEN <<BlankLine>>
    ELSE IF Head(out).kind = "blank" THEN StripLines(Tail(out))
    ELSE IF out[Len(out)].kind = "blank" THEN StripLines(SubSeq(out, 1, Len(out) - 1))
    ELSE out

\* engineer.py:287-300: the result after communicate() returned within the limits
ParseOutput(out, mem) ==
    LET r0 == [InitialResult EXCEPT !.memory_mb = mem] IN
    IF out = <<>> THEN r0                                     \* `if stdout:` is false
    ELSE LET last == StripLines(out)[Len(StripLines(out))] IN
         IF last.kind = "object"
         THEN [r0 EXCEPT !.output = IF last.output = "null" THEN "none" ELSE last.output,
                         !.error = last.error,
                         !.success = ~Truthy(last.error)]
         ELSE [r0 EXCEPT !.output = "raw", !.success = TRUE]   \* the bare except

\* engineer.py:279-300
AfterCommunicate(out, mem) ==
    IF mem > MAX_MEMORY_MB * 1000
    THEN [InitialResult EXCEPT !.error = Some(MemoryText)]
    ELSE ParseOutput(out, mem)

\* engineer.py:302-304
TimeoutResult == [InitialResult EXCEPT !.error = Some(TimeoutText)]

\* engineer.py:306-307
LaunchFailureResult == [InitialResult EXCEPT !.error = Some(LaunchText)]

\* Every result _execute_windows can return.
SandboxResults ==
    {TimeoutResult, LaunchFailureResult}
      \cup {AfterCommunicate(out, mem) : out \in Stdouts, mem \in MemorySamples}

\* engineer.py:325-345 _calculate_metrics: execution_time is taken from a
\* "timing" member of result["output"]; memory_mb from resource_usage.
\* A metric that is not set is Inf here (the readers default to float('inf')).
CalculateMetrics(r) ==
    IF r.success
    THEN [execution_time |-> IF r.output = "dict_timing" THEN TimingTotal ELSE Inf,
          memory_mb |-> r.memory_mb]
    ELSE [execution_time |-> Inf, memory_mb |-> Inf]

\* engineer.py:26-70 execute_experiment: the sandbox's result and its metrics
ExecuteExperiment(r) ==
    [success |-> r.success, output |-> r.output, error |-> r.error,
     metrics |-> CalculateMetrics(r)]

\* Every result execute_experiment can return.
ExperimentResults == {ExecuteExperiment(r) : r \in SandboxResults}

(***************************************************************************)
(* analyst.py: the result analyzer.                                        *)
(***************************************************************************)

\* analyst.py:262-264: error = result.get("error", "") is None when the result
\* carries error = None, and None.lower() raises AttributeError
AnalyzeFailureRaises(r) == ~r.error.some

\* analyst.py:253-289 _analyze_failure: the error_type
ErrorType(r) ==
    LET e == Lower(r.error.text) IN
    IF Contains(e, "timeout") THEN "timeout"
    ELSE IF Contains(e, "memory") THEN "memory"
    ELSE IF Contains(e, "syntax") \/ Contains(e, "name") THEN "code_error"
    ELSE "unknown"

\* analyst.py:266-287: likely_cause and suggestions of an error_type; "" and []
\* are what failure_analysis starts with (analyst.py:256-260)
LikelyCause(error_type) ==
    CASE error_type = "timeout" -> "Algorithm complexity too high"
      [] error_type = "memory" -> "Excessive memory usage"
      [] error_type = "code_error" -> "Code generation issue"
      [] OTHER -> ""
Suggestions(error_type) ==
    CASE error_type = "timeout" ->
            <<"Reduce problem size", "Optimize algorithm", "Increase timeout limit">>
      [] error_type = "memory" ->
            <<"Use memory-efficient data structures", "Process data in chunks",
              "Reduce data size">>
      [] error_type = "code_error" ->
            <<"Improve code generation prompts", "Add better error handling",
              "Validate generated code">>
      [] OTHER -> <<>>

\* analyst.py:253-289 _analyze_failure of a result with the given error: the
\* dictionary it returns, or the AttributeError it raises
AnalyzeFailure(error) ==
    IF AnalyzeFailureRaises([error |-> error])
    THEN [raised |-> TRUE, error_type |-> "", likely_cause |-> "", suggestions |-> <<>>]
    ELSE LET t == ErrorType([error |-> error])
         IN  [raised |-> FALSE, error_type |-> t, likely_cause |-> LikelyCause(t),
              suggestions |-> Suggestions(t)]

\* analyst.py:240-251 _is_novel_result: a dictionary with a key other than
\* result, time, data
IsNovelResult(r) == r.output = "dict_timing"

\* analyst.py:52-83 _calculate_score, in tenths; times in milliseconds, memory
\* in thousandths of a MB.  `expected` is _check_expected_outcomes.
\* SpeedTerm with <= and >= for < and >: the boundary values get the term
SpeedTermInclusive(t) == IF t <= 1000 THEN 5 ELSE IF t >= 10000 THEN -5 ELSE 0

\* analyst.py:62-66: the efficiency bonus, in tenths, of a time in milliseconds
SpeedTerm(t) == IF t < 1000 THEN 5 ELSE IF t > 10000 THEN -5 ELSE 0

\* analyst.py:69-73: the memory term, in tenths, of a memory in thousandths of a MB
MemoryTerm(m) == IF m < 100000 THEN 3 ELSE IF m > 500000 THEN -3 ELSE 0

CalculateScore(r, expected) ==
    LET score == 10 + SpeedTerm(r.metrics.execution_time)
                    + MemoryTerm(r.metrics.memory_mb)
                    + (IF expected THEN 10 ELSE 0)
                    + (IF IsNovelResult(r) THEN 5 ELSE 0)
    IN  IF score < 0 THEN 0 ELSE score

(***************************************************************************)
(* main.py: the orchestrator.                                              *)
(***************************************************************************)

\* Iterations of a workspace (config.py:41 sets 100; the model runs fewer).
MAX_ITERATIONS == 2
\* Experiments of an iteration (config.py:42 sets 3; 1 or 5 after
\* optimize_for_hardware).
EXPERIMENTS_PER_ITERATION == 2
\* Length of best_results (main.py:199 keeps 20; the model keeps fewer).
BEST_RESULTS_KEPT == 2
\* Processes started on one workspace, one after the other.
MaxRuns == 2

\* len(scored_hypotheses[:2 * EXPERIMENTS_PER_ITERATION]): the template
\* generator alone gives two hypotheses (researcher.py:198), the oracle and the
\* mutation generator may add more.
HypothesisCounts == 2..(2 * EXPERIMENTS_PER_ITERATION)

ExperimentIds == (0..(MAX_ITERATIONS - 1)) \X (0..(EXPERIMENTS_PER_ITERATION - 1))

\* main.py:59-64
InitialState == [iteration |-> 0, total_experiments |-> 0, best_results |-> <<>>]

\* before execute_experiment has returned a result
NoResult == [success |-> FALSE, output |-> "none", error |-> None,
             metrics |-> [execution_time |-> Inf, memory_mb |-> Inf]]

\* the local variables of research_iteration outside a call of it
NoIteration ==
    /\ cur_iter' = 0
    /\ hyp_n' = 0
    /\ idx' = 0
    /\ result' = NoResult
    /\ analysis_score' = 0
    /\ iteration_results' = <<>>

RECURSIVE InsertBeforeEqualScore(_, _)
\* InsertByScore with > for >=: x goes before the entries of its own score
InsertBeforeEqualScore(sorted, x) ==
    IF sorted = <<>> THEN <<x>>
    ELSE IF Head(sorted).score > x.score
         THEN <<Head(sorted)>> \o InsertBeforeEqualScore(Tail(sorted), x)
         ELSE <<x>> \o sorted

RECURSIVE InsertByScore(_, _)
\* x goes behind every entry whose score is at least its own
InsertByScore(sorted, x) ==
    IF sorted = <<>> THEN <<x>>
    ELSE IF Head(sorted).score >= x.score
         THEN <<Head(sorted)>> \o InsertByScore(Tail(sorted), x)
         ELSE <<x>> \o sorted

RECURSIVE SortByScoreDesc(_)
\* main.py:195-198 list.sort(key=score, reverse=True): Python's sort is stable
\* and keeps the order of equal keys also when reversed
SortByScoreDesc(s) ==
    IF s = <<>> THEN <<>>
    ELSE InsertByScore(SortByScoreDesc(SubSeq(s, 1, Len(s) - 1)), s[Len(s)])

\* main.py:185-192: the results with score > 0, as best_results entries
RECURSIVE PositiveEntries(_)
PositiveEntries(results) ==
    IF results = <<>> THEN <<>>
    ELSE (IF Head(results).score > 0
          THEN <<[id |-> Head(results).id, score |-> Head(results).score]>>
          ELSE <<>>) \o PositiveEntries(Tail(results))

\* main.py:182-199 update_best_results
UpdateBestResults(best, new_results) ==
    Take(SortByScoreDesc(best \o PositiveEntries(new_results)), BEST_RESULTS_KEPT)

\* the positions inside the try block of run (main.py:213-219)
InsideTry == {"loop", "generate", "execute", "analyze", "save", "update_iteration",
              "update_total", "update_best", "save_state"}

\* LoopTest with <= for <
LoopTestInclusive ==
    /\ pc = "loop"
    /\ IF current_state.iteration <= MAX_ITERATIONS
       THEN /\ pc' = "generate"
            /\ cur_iter' = current_state.iteration
            /\ UNCHANGED exit_cause
       ELSE /\ pc' = "finally"
            /\ exit_cause' = "limit"
            /\ UNCHANGED cur_iter
    /\ UNCHANGED <<current_state, state_file, exp_writes, hyp_n, idx, result,
                   analysis_score, iteration_results, report_written, runs>>

\* main.py:214: the while test; research_iteration starts (main.py:101)
LoopTest ==
    /\ pc = "loop"
    /\ IF current_state.iteration < MAX_ITERATIONS
       THEN /\ pc' = "generate"
            /\ cur_iter' = current_state.iteration
            /\ UNCHANGED exit_cause
       ELSE /\ pc' = "finally"
            /\ exit_cause' = "limit"
            /\ UNCHANGED cur_iter
    /\ UNCHANGED <<current_state, state_file, exp_writes, hyp_n, idx, result,
                   analysis_score, iteration_results, report_written, runs>>

\* main.py:107-119: generate_hypotheses; the for loop runs over the first
\* EXPERIMENTS_PER_ITERATION hypotheses
GenerateHypotheses(count) ==
    /\ pc = "generate"
    /\ hyp_n' = Min(count, EXPERIMENTS_PER_ITERATION)
    /\ idx' = 0
    /\ iteration_results' = <<>>
    /\ pc' = "execute"
    /\ UNCHANGED <<current_state, state_file, exp_writes, cur_iter, result,
                   analysis_score, exit_cause, report_written, runs>>

\* main.py:124: execute_experiment returns a result (it catches Exception)
Execute(r) ==
    /\ pc = "execute"
    /\ result' = r
    /\ pc' = "analyze"
    /\ UNCHANGED <<current_state, state_file, exp_writes, cur_iter, hyp_n, idx,
                   analysis_score, iteration_results, exit_cause, report_written, runs>>

\* main.py:127-131, analyst.py:19-50 analyze_result: a score for a success;
\* _analyze_failure for a failure, whose AttributeError nothing catches before
\* the `except Exception` of run (main.py:225)
Analyze(expected) ==
    /\ pc = "analyze"
    /\ IF result.success
       THEN /\ expected => result.output # "none"
            /\ analysis_score' = CalculateScore(result, expected)
            /\ pc' = "save"
            /\ UNCHANGED exit_cause
       ELSE /\ ~expected
            /\ IF AnalyzeFailureRaises(result)
               THEN /\ pc' = "finally"
                    /\ exit_cause' = "exception"
                    /\ UNCHANGED analysis_score
               ELSE /\ analysis_score' = 0
                    /\ pc' = "save"
                    /\ UNCHANGED exit_cause
    /\ UNCHANGED <<current_state, state_file, exp_writes, cur_iter, hyp_n, idx, result,
                   iteration_results, report_written, runs>>

\* main.py:134-150: the experiment record is written to exp_<iteration>_<i>.json
\* and appended to iteration_results; the for loop goes on
SaveExperiment ==
    /\ pc = "save"
    /\ LET id == <<cur_iter, idx>> IN
         /\ exp_writes' = [exp_writes EXCEPT ![id] = @ + 1]
         /\ iteration_results' =
                Append(iteration_results, [id |-> id, score |-> analysis_score])
    /\ idx' = idx + 1
    /\ result' = NoResult
    /\ analysis_score' = 0
    /\ pc' = IF idx + 1 < hyp_n THEN "execute" ELSE "update_iteration"
    /\ UNCHANGED <<current_state, state_file, cur_iter, hyp_n, exit_cause,
                   report_written, runs>>

\* main.py:158
UpdateIteration ==
    /\ pc = "update_iteration"
    /\ current_state' = [current_state EXCEPT !.iteration = @ + 1]
    /\ pc' = "update_total"
    /\ UNCHANGED <<state_file, exp_writes, cur_iter, hyp_n, idx, result, analysis_score,
                   iteration_results, exit_cause, report_written, runs>>

\* main.py:159
UpdateTotal ==
    /\ pc = "update_total"
    /\ current_state' =
           [current_state EXCEPT !.total_experiments = @ + Len(iteration_results)]
    /\ pc' = "update_best"
    /\ UNCHANGED <<state_file, exp_writes, cur_iter, hyp_n, idx, result, analysis_score,
                   iteration_results, exit_cause, report_written, runs>>

\* main.py:160
UpdateBest ==
    /\ pc = "update_best"
    /\ current_state' =
           [current_state EXCEPT
               !.best_results = UpdateBestResults(@, iteration_results)]
    /\ pc' = "save_state"
    /\ UNCHANGED <<state_file, exp_writes, cur_iter, hyp_n, idx, result, analysis_score,
                   iteration_results, exit_cause, report_written, runs>>

\* main.py:161 save_state, then the pause of main.py:218-219
SaveState ==
    /\ pc = "save_state"
    /\ state_file' = current_state
    /\ pc' = "loop"
    /\ NoIteration
    /\ UNCHANGED <<current_state, exp_writes, exit_cause, report_written, runs>>

\* main.py:221-223: Ctrl+C raises KeyboardInterrupt in the main thread wherever
\* it is inside the try block; execute_experiment's `except Exception` does not
\* catch it
Interrupt ==
    /\ pc \in InsideTry
    /\ pc' = "finally"
    /\ exit_cause' = "interrupt"
    /\ UNCHANGED <<current_state, state_file, exp_writes, cur_iter, hyp_n, idx, result,
                   analysis_score, iteration_results, report_written, runs>>

\* main.py:230-232: save_state, generate_final_report; the process ends
Finally ==
    /\ pc = "finally"
    /\ state_file' = current_state
    /\ report_written' = TRUE
    /\ pc' = "stopped"
    /\ NoIteration
    /\ UNCHANGED <<current_state, exp_writes, exit_cause, runs>>

\* "Run again to continue": a new process, main.py:24-35 and load_state
\* (main.py:53-58) read the state document
RunAgain ==
    /\ pc = "stopped"
    /\ runs < MaxRuns
    /\ runs' = runs + 1
    /\ current_state' = state_file
    /\ pc' = "loop"
    /\ exit_cause' = "none"
    /\ report_written' = FALSE
    /\ UNCHANGED <<state_file, exp_writes, cur_iter, hyp_n, idx, result,
                   analysis_score, iteration_results>>

RunInit ==
    /\ pc = "loop"
    /\ current_state = InitialState
    /\ state_file = InitialState
    /\ exp_writes = [id \in ExperimentIds |-> 0]
    /\ cur_iter = 0
    /\ hyp_n = 0
    /\ idx = 0
    /\ result = NoResult
    /\ analysis_score = 0
    /\ iteration_results = <<>>
    /\ exit_cause = "none"
    /\ report_written = FALSE
    /\ runs = 1


(***************************************************************************)
(* SpecBest: update_best_results (main.py:182-199) over the iterations of  *)
(* a run that nothing interrupts.                                          *)
(***************************************************************************)

\* Iterations SpecBest runs.
MaxBestIterations == 2

\* analysis["score"]: 0.0 for a failure, _calculate_score for a success
AnalysisScores ==
    {0} \cup {CalculateScore(r, e) :
                 r \in {x \in ExperimentResults : x.success}, e \in BOOLEAN}

\* main.py:157-161: the end of a research_iteration whose experiments got
\* these scores
FinishIteration(scores) ==
    /\ current_state.iteration < MaxBestIterations
    /\ LET results == [i \in 1..Len(scores) |->
                          [id |-> <<current_state.iteration, i - 1>>,
                           score |-> scores[i]]]
       IN  current_state' =
             [iteration |-> current_state.iteration + 1,
              total_experiments |-> current_state.total_experiments + Len(results),
              best_results |-> UpdateBestResults(current_state.best_results, results)]
    /\ state_file' = current_state'
    /\ UNCHANGED <<pc, exp_writes, cur_iter, hyp_n, idx, result, analysis_score,
                   iteration_results, exit_cause, report_written, runs>>

(***************************************************************************)
(* SpecRecent: the experiment files of a workspace and                     *)
(* get_recent_experiments (main.py:163-172), which sorts the files by name.*)
(***************************************************************************)

\* Iterations the workspace of SpecRecent completes: enough for an iteration
\* number of two digits.
RecentIterations == 11
\* main.py:163: the default of n
RECENT_DEFAULT_N == 10

RECURSIVE Decimal(_)
\* str(k) of a natural number, as character codes ('0' is 48)
Decimal(k) ==
    IF k < 10 THEN <<48 + k>> ELSE Decimal(k \div 10) \o <<48 + (k % 10)>>

\* main.py:135,176: f"exp_{iteration}_{i}" + ".json", as character codes
\* (e 101, x 120, p 112, _ 95, . 46, j 106, s 115, o 111, n 110)
FileName(id) ==
    <<101, 120, 112, 95>> \o Decimal(id[1]) \o <<95>> \o Decimal(id[2])
        \o <<46, 106, 115, 111, 110>>

RECURSIVE LexLess(_, _)
\* a < b for strings: by the first character that differs, a proper prefix first
LexLess(a, b) ==
    IF b = <<>> THEN FALSE
    ELSE IF a = <<>> THEN TRUE
    ELSE IF Head(a) # Head(b) THEN Head(a) < Head(b)
    ELSE LexLess(Tail(a), Tail(b))

RECURSIVE InsertByName(_, _)
\* id goes behind every id whose file name is not less than its own
InsertByName(sorted, id) ==
    IF sorted = <<>> THEN <<id>>
    ELSE IF LexLess(FileName(Head(sorted)), FileName(id))
         THEN <<id>> \o sorted
         ELSE <<Head(sorted)>> \o InsertByName(Tail(sorted), id)

RECURSIVE SortByNameDesc(_)
\* sorted(exp_dir.glob("*.json"), reverse=True)
SortByNameDesc(ids) ==
    IF ids = <<>> THEN <<>>
    ELSE InsertByName(SortByNameDesc(Tail(ids)), Head(ids))

\* main.py:163-172 get_recent_experiments(n)
GetRecentExperiments(files, n) == Take(SortByNameDesc(files), n)

\* the iteration number the next research_iteration uses
NextIteration(files) == IF files = <<>> THEN 0 ELSE files[Len(files)][1] + 1

\* main.py:99-161: a complete research_iteration writes one file for each of
\* the first EXPERIMENTS_PER_ITERATION hypotheses
CompleteIteration(count) ==
    /\ NextIteration(rc_files) < RecentIterations
    /\ rc_files' = rc_files \o
           [i \in 1..Min(count, EXPERIMENTS_PER_ITERATION) |->
                <<NextIteration(rc_files), i - 1>>]
    /\ rc_out' = <<>>
    /\ rc_n' = 0

\* main.py:163-172
RecentQuery(n) ==
    /\ rc_n' = n
    /\ rc_out' = GetRecentExperiments(rc_files, n)
    /\ UNCHANGED rc_files

RecentInit ==
    /\ rc_files = <<>>
    /\ rc_out = <<>>
    /\ rc_n = 0


(***************************************************************************)
(* SpecCompare: _compare_with_recent (analyst.py:85-130) on drawn inputs.  *)
(***************************************************************************)

\* Length of the recent list SpecCompare draws (main.py:163 reads up to 10).
MaxRecent == 3
\* config.py:67 MIN_IMPROVEMENT_THRESHOLD = 0.05, in percent
MIN_IMPROVEMENT_PERCENT == 5

\* execution times of the drawn results, in milliseconds
CompareTimes == {1000, 2000, 3000, 5000}

\* a recent experiment, as far as _compare_with_recent reads it: a failure, or
\* a success with or without metrics.execution_time
CompareExperiments ==
    {[success |-> FALSE, execution_time |-> Inf]}
      \cup {[success |-> TRUE, execution_time |-> t] : t \in CompareTimes \cup {Inf}}

\* analyst.py:88-94
EmptyComparison ==
    [better_than |-> 0, worse_than |-> 0, similar_to |-> 0,
     performance_rank |-> 0, is_improvement |-> FALSE]

\* analyst.py:105-114: the execution times of the successful recent
\* experiments that carry one, in the order of the list
RECURSIVE ComparableTimes(_)
ComparableTimes(recent) ==
    IF recent = <<>> THEN <<>>
    ELSE (IF Head(recent).success /\ Head(recent).execution_time # Inf
          THEN <<Head(recent).execution_time>>
          ELSE <<>>) \o ComparableTimes(Tail(recent))

\* analyst.py:116: current_time < exp_time * (1 - threshold)
BetterThan(cur, t) == 100 * cur < t * (100 - MIN_IMPROVEMENT_PERCENT)
\* analyst.py:118: current_time > exp_time * (1 + threshold)
WorseThan(cur, t) == 100 * cur > t * (100 + MIN_IMPROVEMENT_PERCENT)

RECURSIVE InsertAscending(_, _)
InsertAscending(sorted, x) ==
    IF sorted = <<>> THEN <<x>>
    ELSE IF Head(sorted) <= x
         THEN <<Head(sorted)>> \o InsertAscending(Tail(sorted), x)
         ELSE <<x>> \o sorted

\* SortAscending without the sort
LeaveUnsorted(s) == s

RECURSIVE SortAscending(_)
\* analyst.py:126 list.sort()
SortAscending(s) ==
    IF s = <<>> THEN <<>>
    ELSE InsertAscending(SortAscending(SubSeq(s, 1, Len(s) - 1)), s[Len(s)])

\* list.index(x): the 0-based position of the first element equal to x
IndexOf(s, x) == (CHOOSE k \in 1..Len(s) : s[k] = x /\ \A j \in 1..(k - 1) : s[j] # x) - 1

\* analyst.py:85-130 _compare_with_recent
CompareWithRecent(cur, recent) ==
    IF recent = <<>> THEN EmptyComparison
    ELSE
      LET times == ComparableTimes(recent)
          ks == 1..Len(times)
          counted == [EmptyComparison EXCEPT
              !.better_than = Cardinality({k \in ks : BetterThan(cur, times[k])}),
              !.worse_than = Cardinality({k \in ks : ~BetterThan(cur, times[k])
                                                      /\ WorseThan(cur, times[k])}),
              !.similar_to = Cardinality({k \in ks : ~BetterThan(cur, times[k])
                                                      /\ ~WorseThan(cur, times[k])})]
      IN  IF times # <<>> /\ cur # Inf
          THEN LET all == SortAscending(Append(times, cur))
                   rank == IndexOf(all, cur) + 1
               IN  [counted EXCEPT !.performance_rank = rank,
                                   !.is_improvement = (rank <= Len(all) \div 2)]
          ELSE counted

NotCompared == [EmptyComparison EXCEPT !.performance_rank = -1]

\* analyst.py:37: analyze_result compares a successful result
Compare ==
    /\ cmp_out = NotCompared
    /\ cmp_out' = CompareWithRecent(cmp_current, cmp_recent)
    /\ UNCHANGED <<cmp_recent, cmp_current>>

RECURSIVE SeqsUpTo(_, _)
\* the sequences over S of length at most n
SeqsUpTo(S, n) ==
    IF n = 0 THEN {<<>>}
    ELSE LET shorter == SeqsUpTo(S, n - 1)
         IN  shorter \cup {Append(q, x) : q \in shorter, x \in S}

CompareIdle ==
    /\ cmp_recent = <<>>
    /\ cmp_current = Inf
    /\ cmp_out = NotCompared

CompareInit ==
    /\ cmp_recent \in SeqsUpTo(CompareExperiments, MaxRecent)
    /\ cmp_current \in CompareTimes \cup {Inf}
    /\ cmp_out = NotCompared


(***************************************************************************)
(* SpecScore: _calculate_score (analyst.py:52-83) on drawn metrics.        *)
(***************************************************************************)

\* metrics.execution_time, in milliseconds: around the thresholds 1.0 and 10.0
\* seconds, and absent (Inf)
ScoreTimes == {0, 999, 1000, 1001, 9999, 10000, 10001, Inf}
\* metrics.memory_mb, in thousandths of a MB: around the thresholds 100 and
\* 500 MB, and absent (Inf)
ScoreMemories == {0, 99999, 100000, 100001, 499999, 500000, 500001, Inf}

\* a successful result with these metrics; its output is a dictionary with or
\* without a key _is_novel_result counts as unusual
ScoredResult(t, m, out) ==
    [success |-> TRUE, output |-> out, error |-> None,
     metrics |-> [execution_time |-> t, memory_mb |-> m]]

\* analyst.py:33: analyze_result scores a successful result
Score ==
    /\ sc_score = -1
    /\ sc_score' = CalculateScore(sc_result, sc_expected)
    /\ UNCHANGED <<sc_result, sc_expected>>

ScoreIdle ==
    /\ sc_result = NoResult
    /\ sc_expected = FALSE
    /\ sc_score = -1

ScoreInit ==
    /\ sc_result \in {ScoredResult(t, m, out) :
                         t \in ScoreTimes, m \in ScoreMemories,
                         out \in {"dict", "dict_timing"}}
    /\ sc_expected \in BOOLEAN
    /\ sc_score = -1


(***************************************************************************)
(* SpecFailure: _analyze_failure (analyst.py:253-289) on the errors a      *)
(* failed result can carry: None, what execute_experiment and              *)
(* _execute_windows start with (engineer.py:36, 254), or a text.           *)
(***************************************************************************)

\* Words of the error texts the model draws.
MaxErrorWords == 2

ErrorWords == {"Timeout", "timeout", "Memory", "syntax", "Name", "limit", "zero"}

\* before _analyze_failure is called
NotAnalyzed == [raised |-> FALSE, error_type |-> "none", likely_cause |-> "",
                suggestions |-> <<>>]

\* analyst.py:46-48: analyze_result calls _analyze_failure for a failed result
analyze_failure ==
    /\ fa_analysis = NotAnalyzed
    /\ fa_analysis' = AnalyzeFailure(fa_error)
    /\ UNCHANGED fa_error

\* the next failed result comes
next_failure(error) ==
    /\ fa_analysis # NotAnalyzed
    /\ fa_error' = error
    /\ fa_analysis' = NotAnalyzed

FailureIdle ==
    /\ fa_error = None
    /\ fa_analysis = NotAnalyzed

FailureErrors == {None} \cup {Some(t) : t \in SeqsUpTo(ErrorWords, MaxErrorWords)}

FailureInit ==
    /\ fa_error \in FailureErrors
    /\ fa_analysis = NotAnalyzed


(***************************************************************************)
(* SpecHypotheses: generate_hypotheses (researcher.py:40-69) on drawn      *)
(* objectives, histories and oracle behaviours.  The insight store is      *)
(* empty here, so the get_relevant_insights call of researcher.py:44       *)
(* returns [] and changes nothing.                                         *)
(***************************************************************************)

\* Blocks ("---"-separated) of an oracle reply that the model draws.
MaxReplyBlocks == 2
\* Length of the recent window the model draws (main.py:163 reads up to 10).
MaxWindow == 2

\* _classify_objective (researcher.py:212-221)
ObjectiveTypes == {"algorithm", "optimization"}

IterativeApproach == <<"Iterative", "optimization">>
NovelApproach == <<"novel">>
\* researcher.py:202  f"Template-based approach for {obj_type}"
TemplateApproach(obj_type) == <<"Template-based", "approach", "for", obj_type>>
\* researcher.py:297-310: the types of the list `mutations`, in its order
MutationTypes == <<"parameter_change", "combination", "extension">>
\* researcher.py:317  f"{mutation['type']} of {base approach}"
MutationApproach(type, base) == <<type, "of">> \o base

\* A block of an oracle reply, as _parse_llm_response reads it: the text after
\* HYPOTHESIS:, the text after APPROACH:, the number of comma-separated METRICS.
\* A block without a description is dropped (researcher.py:184).
ReplyBlocks ==
    { [description |-> <<"use", "caching">>, approach |-> IterativeApproach, metrics |-> 3],
      [description |-> <<"try", "sorting">>, approach |-> NovelApproach, metrics |-> 1],
      [description |-> <<>>, approach |-> NovelApproach, metrics |-> 3] }

\* utils.py:220-233 generate_fallback_response for a prompt that contains
\* "hypothesis": one block, two metrics
FallbackResponse ==
    << [description |-> <<"Test", "algorithmic", "improvement">>,
        approach |-> IterativeApproach, metrics |-> 2] >>

\* How a call_ollama ends (utils.py:152-177): a reply with status 200, another
\* status, a connection failure whose retry fails too, another exception.
OracleOutcomes == {"reply", "error_status", "connection_failure", "exception"}

\* utils.py:132-177 call_ollama: the response text
CallOllama(outcome, reply) == IF outcome = "reply" THEN reply ELSE FallbackResponse

RECURSIVE ParseLlmResponse(_)
\* researcher.py:144-187 _parse_llm_response
ParseLlmResponse(response) ==
    IF response = <<>> THEN <<>>
    ELSE (IF Head(response).description # <<>>
          THEN << [source |-> "llm", description |-> Head(response).description,
                   approach |-> Head(response).approach,
                   metrics |-> Head(response).metrics] >>
          ELSE <<>>) \o ParseLlmResponse(Tail(response))

\* researcher.py:98-142 _generate_llm_hypotheses
GenerateLlmHypotheses(outcome, reply) == ParseLlmResponse(CallOllama(outcome, reply))

\* The templates of an objective type (researcher.py:22-38): three each
Templates == {"template_1", "template_2", "template_3"}
\* random.sample(templates, 2): two different templates in some order
TemplateSamples == {p \in Templates \X Templates : p[1] # p[2]}

\* researcher.py:189-210 _generate_template_hypotheses
GenerateTemplateHypotheses(obj_type, sample) ==
    [k \in 1..2 |-> [source |-> "template", description |-> <<sample[k]>>,
                     approach |-> TemplateApproach(obj_type), metrics |-> 3]]

\* A recent experiment, as far as the researcher reads it: result.success and
\* the hypothesis's approach and number of metrics
WindowExperiments ==
    { [success |-> FALSE, approach |-> IterativeApproach, metrics |-> 2],
      [success |-> FALSE, approach |-> TemplateApproach("algorithm"), metrics |-> 3],
      [success |-> TRUE, approach |-> NovelApproach, metrics |-> 3],
      [success |-> TRUE, approach |-> IterativeApproach, metrics |-> 1] }

\* researcher.py:286-287: the positions of the successful experiments
Successful(recent) == {k \in 1..Len(recent) : recent[k].success}

\* researcher.py:312-322: the hypothesis made of a mutation type and the base
\* experiment's hypothesis
MutationHypothesis(type, base_hypothesis) ==
    [source |-> "mutation", description |-> <<type>>,
     approach |-> MutationApproach(type, base_hypothesis.approach),
     metrics |-> base_hypothesis.metrics]

\* GenerateMutations with a hypothesis for every entry of `mutations`
GenerateEveryMutation(recent, base) ==
    IF Successful(recent) = {} THEN <<>>
    ELSE [k \in 1..Len(MutationTypes) |-> MutationHypothesis(MutationTypes[k], recent[base])]

\* researcher.py:281-324 _generate_mutations with random.choice giving `base`;
\* the loop runs over mutations[:1] (researcher.py:312)
GenerateMutations(recent, base) ==
    IF Successful(recent) = {} THEN <<>>
    ELSE [k \in 1..1 |-> MutationHypothesis(MutationTypes[k], recent[base])]

\* researcher.py:339-342
FailedApproaches(recent) ==
    {recent[k].approach : k \in {j \in 1..Len(recent) : ~recent[j].success}}

\* HypothesisScore with the factors added to the base instead of multiplied
HypothesisScoreAdditive(h, failed) ==
    1000 + (IF h.approach \in failed THEN -500 ELSE 0)
         + (IF h.source = "llm" THEN 200 ELSE 0)
         + (IF h.metrics > 2 THEN 100 ELSE 0)

\* researcher.py:345-357: the score of a hypothesis, in thousandths
HypothesisScore(h, failed) ==
    LET s0 == 1000
        s1 == IF h.approach \in failed THEN (s0 * 5) \div 10 ELSE s0
        s2 == IF h.source = "llm" THEN (s1 * 12) \div 10 ELSE s1
        s3 == IF h.metrics > 2 THEN (s2 * 11) \div 10 ELSE s2
    IN  s3

\* researcher.py:344-359: every hypothesis gets its score; gen is its position
\* in the list it was generated into
Scored(hypotheses, recent) ==
    [k \in 1..Len(hypotheses) |->
        [source |-> hypotheses[k].source, description |-> hypotheses[k].description,
         approach |-> hypotheses[k].approach, metrics |-> hypotheses[k].metrics,
         score |-> HypothesisScore(hypotheses[k], FailedApproaches(recent)),
         gen |-> k]]

RECURSIVE InsertByHypothesisScore(_, _)
InsertByHypothesisScore(sorted, h) ==
    IF sorted = <<>> THEN <<h>>
    ELSE IF Head(sorted).score >= h.score
         THEN <<Head(sorted)>> \o InsertByHypothesisScore(Tail(sorted), h)
         ELSE <<h>> \o sorted

\* SortHypotheses in ascending order of score
RECURSIVE SortHypothesesAscending(_)
SortHypothesesAscending(s) ==
    IF s = <<>> THEN <<>>
    ELSE LET rest == SortHypothesesAscending(SubSeq(s, 1, Len(s) - 1))
             h == s[Len(s)]
             before == SelectSeq(rest, LAMBDA x : x.score <= h.score)
             after == SelectSeq(rest, LAMBDA x : x.score > h.score)
         IN  before \o <<h>> \o after

RECURSIVE SortHypotheses(_)
\* researcher.py:362 list.sort(key=score, reverse=True), a stable sort
SortHypotheses(s) ==
    IF s = <<>> THEN <<>>
    ELSE InsertByHypothesisScore(SortHypotheses(SubSeq(s, 1, Len(s) - 1)), s[Len(s)])

\* researcher.py:336-364 _score_hypotheses
ScoreHypotheses(hypotheses, recent) == SortHypotheses(Scored(hypotheses, recent))

\* researcher.py:50-63: the hypotheses in generation order
Candidates(obj_type, recent, outcome, reply, sample, base) ==
    GenerateLlmHypotheses(outcome, reply)
      \o GenerateTemplateHypotheses(obj_type, sample)
      \o (IF recent # <<>> THEN GenerateMutations(recent, base) ELSE <<>>)

\* GenerateHypothesesList with the oracle's hypotheses alone and no fallback
\* response
OracleHypothesesOnly(obj_type, recent, outcome, reply, sample, base) ==
    Take(ScoreHypotheses(ParseLlmResponse(IF outcome = "reply" THEN reply ELSE <<>>),
                         recent),
         2 * EXPERIMENTS_PER_ITERATION)

\* researcher.py:40-69 generate_hypotheses: what it returns
GenerateHypothesesList(obj_type, recent, outcome, reply, sample, base) ==
    Take(ScoreHypotheses(Candidates(obj_type, recent, outcome, reply, sample, base),
                         recent),
         2 * EXPERIMENTS_PER_ITERATION)

\* before generate_hypotheses has returned
NotGenerated == << [source |-> "none", description |-> <<>>, approach |-> <<>>,
                    metrics |-> 0, score |-> 0, gen |-> 0] >>

\* researcher.py:40-69 with the random choices drawn: the templates sampled
\* and the successful experiment that is mutated
generate_hypotheses(sample, base) ==
    /\ gh_out = NotGenerated
    /\ base \in Successful(gh_recent) \/ (Successful(gh_recent) = {} /\ base = 0)
    /\ gh_candidates' =
           Scored(Candidates(gh_objective, gh_recent, gh_outcome, gh_reply, sample, base),
                  gh_recent)
    /\ gh_out' = GenerateHypothesesList(gh_objective, gh_recent, gh_outcome, gh_reply,
                                        sample, base)
    /\ UNCHANGED <<gh_objective, gh_recent, gh_outcome, gh_reply>>

\* main.py:106-113: the next iteration reads the recent experiments again and
\* calls generate_hypotheses with them
next_round(recent) ==
    /\ gh_out # NotGenerated
    /\ gh_recent' = recent
    /\ gh_candidates' = <<>>
    /\ gh_out' = NotGenerated
    /\ UNCHANGED <<gh_objective, gh_outcome, gh_reply>>

HypothesesIdle ==
    /\ gh_objective = "algorithm"
    /\ gh_recent = <<>>
    /\ gh_outcome = "reply"
    /\ gh_reply = <<>>
    /\ gh_candidates = <<>>
    /\ gh_out = NotGenerated

HypothesesInit ==
    /\ gh_objective \in ObjectiveTypes
    /\ gh_recent \in SeqsUpTo(WindowExperiments, MaxWindow)
    /\ gh_outcome \in OracleOutcomes
    /\ gh_reply \in (IF gh_outcome = "reply" THEN SeqsUpTo(ReplyBlocks, MaxReplyBlocks)
                      ELSE {<<>>})
    /\ gh_candidates = <<>>
    /\ gh_out = NotGenerated


(***************************************************************************)
(* utils.py and cognition_base.py: similarity and the insight store.       *)
(***************************************************************************)

\* Insights the store keeps (config.py:71 sets 500; the model keeps fewer).
MAX_INSIGHTS_STORED == 2
\* The clock of SpecStore runs from 0 to MaxClock ticks.
MaxClock == 1
\* usage_count is followed up to MaxUsage.
MaxUsage == 1
\* Ticks of the clock in a day: _update_relevance_scores counts whole days
\* (timedelta.days), so an age below TicksPerDay ticks is 0 days.
TicksPerDay == 1

\* The contents SpecStore inserts, str(content) as words.  Content 2 is content 1
\* and a word, content 3 is content 2 and a word; content 6 is content 1 in
\* another case; 4 and 5 share no word with the others.
ContentText(c) ==
    CASE c = 1 -> <<"a", "b", "c", "d", "e", "f", "g", "h", "i", "j">>
      [] c = 2 -> <<"a", "b", "c", "d", "e", "f", "g", "h", "i", "j", "k">>
      [] c = 3 -> <<"a", "b", "c", "d", "e", "f", "g", "h", "i", "j", "k", "l">>
      [] c = 4 -> <<"x", "x">>
      [] c = 5 -> <<"y">>
      [] c = 6 -> <<"A", "b", "c", "d", "e", "f", "g", "h", "i", "j">>
Contents == 1..6
\* the queries of get_relevant_insights: the words of a content
Queries == {1, 4}
\* limit (cognition_base.py:92 defaults to 5; generate_hypotheses passes 5)
Limits == {1, 5}

\* utils.py:108-109  set(text.lower().split())
WordSet(t) == SeqToSet(Lower(t))

\* utils.py:101-118 calculate_similarity(t1, t2) > tenths / 10: the Jaccard
\* ratio of the word sets, 0.0 for an empty text
SimilarityAbove(t1, t2, tenths) ==
    /\ t1 # <<>>
    /\ t2 # <<>>
    /\ 10 * Cardinality(WordSet(t1) \cap WordSet(t2))
          > tenths * Cardinality(WordSet(t1) \cup WordSet(t2))

\* 0.95 ** (days / 7) in millionths, for 0 to 8 days
AgeFactor(days) ==
    <<1000000, 992699, 985452, 978257, 971115, 964025, 956987, 950000, 943064>>[days + 1]

\* Relevance with the day of the timestamp for the age
RelevanceByTimestamp(timestamp, usage_count, clock) ==
    AgeFactor(timestamp \div TicksPerDay) * (10 + usage_count)

\* cognition_base.py:130-136: age_factor * usage_factor, in ten-millionths
Relevance(timestamp, usage_count, clock) ==
    AgeFactor((clock - timestamp) \div TicksPerDay) * (10 + usage_count)

\* cognition_base.py:59: relevance_score 1.0
FreshRelevance == 10 * AgeFactor(0)

\* cognition_base.py:55-61
InsightRecord(c, clock) ==
    [content |-> c, timestamp |-> clock, relevance_score |-> FreshRelevance,
     usage_count |-> 0]

\* calculate_similarity(str(a), str(b)) > 0.9 for the contents a, b
SimilarContents ==
    [a \in Contents |-> [b \in Contents |->
        SimilarityAbove(ContentText(a), ContentText(b), 9)]]

\* calculate_similarity(query.lower(), str(content).lower()) >
\* INSIGHT_RELEVANCE_THRESHOLD (config.py:72 sets 0.7) for a query q, a content c
RelevantContents ==
    [q \in Queries |-> [c \in Contents |->
        SimilarityAbove(Lower(ContentText(q)), Lower(ContentText(c)), 7)]]

\* utils.py:101-118 calculate_similarity(query.lower(), str(content).lower())
\* as the pair <<size of the intersection, size of the union>> of the word sets;
\* <<0, 1>> is the 0.0 of an empty text
QuerySimilarity ==
    [q \in Queries |-> [c \in Contents |->
        LET w1 == WordSet(Lower(ContentText(q)))
            w2 == WordSet(Lower(ContentText(c)))
        IN  IF w1 = {} \/ w2 = {} THEN <<0, 1>>
            ELSE <<Cardinality(w1 \cap w2), Cardinality(w1 \cup w2)>>]]

\* the similarity of content a to query q is above that of content b
MoreSimilar(q, a, b) ==
    QuerySimilarity[q][a][1] * QuerySimilarity[q][b][2]
        > QuerySimilarity[q][b][1] * QuerySimilarity[q][a][2]

\* IsDuplicateInsight with equality of the contents for their similarity
IsSameInsight(store, c) ==
    \E k \in 1..Len(store) : store[k].content = c

\* cognition_base.py:82-90 _is_duplicate_insight
IsDuplicateInsight(store, c) ==
    \E k \in 1..Len(store) : SimilarContents[store[k].content][c]

\* the sort key (relevance_score, timestamp): a >= b
KeyAtLeast(a, b) ==
    \/ a.relevance_score > b.relevance_score
    \/ a.relevance_score = b.relevance_score /\ a.timestamp >= b.timestamp

RECURSIVE InsertByRelevance(_, _)
InsertByRelevance(sorted, x) ==
    IF sorted = <<>> THEN <<x>>
    ELSE IF KeyAtLeast(Head(sorted), x)
         THEN <<Head(sorted)>> \o InsertByRelevance(Tail(sorted), x)
         ELSE <<x>> \o sorted

\* SortByRelevanceDesc without the sort
KeepInsertionOrder(s) == s

RECURSIVE SortByRelevanceDesc(_)
\* cognition_base.py:70-73 list.sort(key=(relevance_score, timestamp), reverse=True)
SortByRelevanceDesc(s) ==
    IF s = <<>> THEN <<>>
    ELSE InsertByRelevance(SortByRelevanceDesc(SubSeq(s, 1, Len(s) - 1)), s[Len(s)])

\* Truncate without the truncation
TruncateNever(store) == store

\* cognition_base.py:68-74
Truncate(store) ==
    IF Len(store) > MAX_INSIGHTS_STORED
    THEN Take(SortByRelevanceDesc(store), MAX_INSIGHTS_STORED)
    ELSE store

\* cognition_base.py:51-76 add_insight: the store after the call
AddInsight(store, c, clock) ==
    IF IsDuplicateInsight(store, c) THEN store
    ELSE Truncate(Append(store, InsightRecord(c, clock)))

\* cognition_base.py:101-115: the positions of the insights a query matches
Matching(store, q) ==
    {k \in 1..Len(store) : RelevantContents[q][store[k].content]}

\* cognition_base.py:92-123 get_relevant_insights: the store after the call;
\* every matching insight is counted, then every score is recomputed
\* (_update_relevance_scores, cognition_base.py:125-136)
GetRelevantInsights(store, q, clock) ==
    [k \in 1..Len(store) |->
        LET u == store[k].usage_count + (IF k \in Matching(store, q) THEN 1 ELSE 0)
        IN  [store[k] EXCEPT !.usage_count = u,
                             !.relevance_score = Relevance(store[k].timestamp, u, clock)]]

RECURSIVE InsertBySimilarity(_, _, _, _)
\* position k goes behind every position whose insight is at least as similar
InsertBySimilarity(sorted, k, store, q) ==
    IF sorted = <<>> THEN <<k>>
    ELSE IF MoreSimilar(q, store[k].content, store[Head(sorted)].content)
         THEN <<k>> \o sorted
         ELSE <<Head(sorted)>> \o InsertBySimilarity(Tail(sorted), k, store, q)

RECURSIVE ScoredInsights(_, _, _)
\* cognition_base.py:99-118 scored_insights after its sort (stable, by
\* relevance, reverse=True), as the positions in the store of the first n
\* insights that match
ScoredInsights(store, q, n) ==
    IF n = 0 THEN <<>>
    ELSE IF n \in Matching(store, q)
         THEN InsertBySimilarity(ScoredInsights(store, q, n - 1), n, store, q)
         ELSE ScoredInsights(store, q, n - 1)

\* cognition_base.py:123 scored_insights[:limit]
ReturnedInsights(store, q, limit) ==
    Take(ScoredInsights(store, q, Len(store)), limit)

\* What the last get_relevant_insights call did, as long as no add_insight has
\* followed it: the positions of the insights it returned, in order, and by how
\* much it changed the usage_count at each position of the store.
NoQuery == [valid |-> FALSE, returned |-> <<>>, usage_delta |-> <<>>]

\* What the last add_insight call did, as long as no query has followed it:
\* its content, whether it found no duplicate and appended, the records it
\* evicted, by how much the count changed; and how it relates to the call before
\* it: `repeat` is "same" when that call had the same content, "similar" when
\* its content was another one with similarity above 0.9, and prev_appended
\* tells whether that call appended.
NoAdd == [valid |-> FALSE, content |-> 0, appended |-> FALSE, evicted |-> {},
          delta |-> 0, repeat |-> "none", prev_appended |-> FALSE]

\* the records of `before` (with the new one) that are not in `after`
Evicted(before, after) == SeqToSet(before) \ SeqToSet(after)

\* cognition_base.py:51-76
add_insight(c) ==
    LET dup == IsDuplicateInsight(insights, c)
        after == AddInsight(insights, c, now)
    IN  /\ insights' = after
        /\ last_add' =
             [valid |-> TRUE, content |-> c, appended |-> ~dup,
              evicted |-> IF dup THEN {}
                          ELSE Evicted(Append(insights, InsightRecord(c, now)), after),
              delta |-> Len(after) - Len(insights),
              repeat |-> IF ~last_add.valid THEN "none"
                         ELSE IF last_add.content = c THEN "same"
                         ELSE IF SimilarContents[last_add.content][c] THEN "similar"
                         ELSE "none",
              prev_appended |-> last_add.valid /\ last_add.appended]
        /\ insights_file' = IF dup THEN insights_file ELSE after
        /\ last_query' = NoQuery
        /\ UNCHANGED now

\* cognition_base.py:92-123; limit only cuts the list that is returned
get_relevant_insights(q, limit) ==
    /\ insights # <<>>
    /\ \A k \in 1..Len(insights) : insights[k].usage_count < MaxUsage
    /\ insights' = GetRelevantInsights(insights, q, now)
    /\ last_add' = NoAdd
    /\ last_query' =
         [valid |-> TRUE,
          returned |-> ReturnedInsights(insights, q, limit),
          usage_delta |-> [k \in 1..Len(insights) |->
                             insights'[k].usage_count - insights[k].usage_count]]
    /\ UNCHANGED <<now, insights_file>>

\* time passes
ClockTick ==
    /\ now < MaxClock
    /\ now' = now + 1
    /\ UNCHANGED <<insights, last_add, last_query, insights_file>>

StoreInit ==
    /\ insights = <<>>
    /\ now = 0
    /\ last_add = NoAdd
    /\ last_query = NoQuery
    /\ insights_file = <<>>


(***************************************************************************)
(* SpecPatterns and SpecFailures: the pattern store and the failure store  *)
(* of cognition_base.py, from the empty stores of a new workspace.         *)
(***************************************************************************)

\* add_pattern calls, over all types, that the model follows.
MaxPatternCalls == 4
\* add_failure calls, over all types, that the model follows.
MaxFailureCalls == 3

\* str(pattern) and the failure descriptions, as words: text 2 is text 1 and a
\* word, text 3 is text 2 and a word, text 4 shares no word with them.
RecordText(i) ==
    CASE i = 1 -> <<"p", "q", "r", "s", "t", "u", "v", "w">>
      [] i = 2 -> <<"p", "q", "r", "s", "t", "u", "v", "w", "x">>
      [] i = 3 -> <<"p", "q", "r", "s", "t", "u", "v", "w", "x", "y">>
      [] i = 4 -> <<"z">>
RecordTexts == 1..4

\* calculate_similarity(str(a), str(b)) > 0.8 (cognition_base.py:169, 249)
SimilarRecords ==
    [a \in RecordTexts |-> [b \in RecordTexts |->
        SimilarityAbove(RecordText(a), RecordText(b), 8)]]

PatternTypes == {"type_a", "type_b"}

\* cognition_base.py:161-173 _find_similar_pattern: the position of the first
\* similar record of the type, 0 for None
FindSimilarPattern(store, pattern_type, pattern) ==
    LET similar == {k \in 1..Len(store[pattern_type]) :
                       SimilarRecords[store[pattern_type][k].pattern][pattern]}
    IN  IF similar = {} THEN 0
        ELSE CHOOSE k \in similar : \A j \in similar : k <= j

\* AddPattern that appends the new record also when it found a similar one
AddPatternAlsoAppend(store, pattern_type, pattern) ==
    LET k == FindSimilarPattern(store, pattern_type, pattern)
        counted == IF k # 0
                   THEN [store EXCEPT ![pattern_type][k].occurrences = @ + 1]
                   ELSE store
    IN  [counted EXCEPT ![pattern_type] =
                             Append(@, [pattern |-> pattern, occurrences |-> 1])]

\* cognition_base.py:138-159 add_pattern: self.patterns after the call
AddPattern(store, pattern_type, pattern) ==
    LET k == FindSimilarPattern(store, pattern_type, pattern)
    IN  IF k # 0
        THEN [store EXCEPT ![pattern_type][k].occurrences = @ + 1]
        ELSE [store EXCEPT ![pattern_type] =
                               Append(@, [pattern |-> pattern, occurrences |-> 1])]

RECURSIVE SumOccurrences(_)
SumOccurrences(records) ==
    IF records = <<>> THEN 0
    ELSE Head(records).occurrences + SumOccurrences(Tail(records))

NoCall == [type |-> "none", text |-> 0, solution |-> None]

\* cognition_base.py:138-159
add_pattern(pattern_type, pattern) ==
    /\ SumOccurrences(patterns["type_a"]) + SumOccurrences(patterns["type_b"])
          < MaxPatternCalls
    /\ patterns' = AddPattern(patterns, pattern_type, pattern)
    /\ pattern_calls' = [pattern_calls EXCEPT ![pattern_type] = @ + 1]
    /\ pt_call' = [type |-> pattern_type, text |-> pattern, solution |-> None]

PatternsInit ==
    /\ patterns = [t \in PatternTypes |-> <<>>]
    /\ pattern_calls = [t \in PatternTypes |-> 0]
    /\ pt_call = NoCall

PatternsIdle == PatternsInit

FailureTypes == {"timeout", "code_error"}
\* the descriptions add_failure is called with
FailureDescriptions == {1, 2, 4}
\* the solutions add_failure is called with: None (the default), "", two texts
FailureSolutions == {None, Some(<<>>), Some(<<"fix_1">>), Some(<<"fix_2">>)}

\* the truth value of a solution: None and "" are false
HasSolution(solution) == solution.some /\ solution.text # <<>>

\* cognition_base.py:247-251: the position of the first similar record of the
\* type, 0 for None
FindSimilarFailure(store, error_type, description) ==
    LET similar == {k \in 1..Len(store[error_type]) :
                       SimilarRecords[store[error_type][k].description][description]}
    IN  IF similar = {} THEN 0
        ELSE CHOOSE k \in similar : \A j \in similar : k <= j

\* AddFailure that stores every non-empty new solution on the similar record
AddFailureOverwriting(store, error_type, description, solution) ==
    LET k == FindSimilarFailure(store, error_type, description)
    IN  IF k # 0
        THEN [store EXCEPT
                ![error_type][k].occurrences = @ + 1,
                ![error_type][k].solution = IF HasSolution(solution) THEN solution ELSE @]
        ELSE [store EXCEPT ![error_type] =
                 Append(@, [description |-> description, solution |-> solution,
                            occurrences |-> 1])]

\* cognition_base.py:232-259 add_failure: self.knowledge["failures"] after the
\* call
AddFailure(store, error_type, description, solution) ==
    LET k == FindSimilarFailure(store, error_type, description)
    IN  IF k # 0
        THEN [store EXCEPT
                ![error_type][k].occurrences = @ + 1,
                ![error_type][k].solution =
                    IF HasSolution(solution) /\ ~HasSolution(@) THEN solution ELSE @]
        ELSE [store EXCEPT ![error_type] =
                 Append(@, [description |-> description, solution |-> solution,
                            occurrences |-> 1])]

\* cognition_base.py:232-259
add_failure(error_type, description, solution) ==
    /\ SumOccurrences(failures["timeout"]) + SumOccurrences(failures["code_error"])
          < MaxFailureCalls
    /\ failures' = AddFailure(failures, error_type, description, solution)
    /\ fl_call' = [type |-> error_type, text |-> description, solution |-> solution]

FailuresInit ==
    /\ failures = [t \in FailureTypes |-> <<>>]
    /\ fl_call = NoCall

FailuresIdle == FailuresInit


(***************************************************************************)
(* SpecSandbox: one execution of _execute_windows, step by step.  The      *)
(* subprocess runs beside the parent: it exits on its own (ChildExit) or   *)
(* dies some time after proc.kill() sent it the signal (ChildDies).        *)
(***************************************************************************)

SandboxIdle ==
    /\ sb_pc = "prepared"
    /\ proc = "none"
    /\ killed = FALSE
    /\ elapsed = 0
    /\ child_stdout = <<>>
    /\ memory_used = 0
    /\ sb_result = InitialResult
    /\ popen_calls = 0

\* Launch with a retry: after Popen raised, the subprocess is launched again
LaunchWithRetry ==
    /\ sb_pc = "prepared"
    /\ popen_calls' = popen_calls + 1
    /\ \/ /\ proc' = "running"
          /\ sb_pc' = "communicate"
       \/ /\ UNCHANGED <<proc, sb_pc>>
    /\ UNCHANGED <<killed, elapsed, child_stdout, memory_used, sb_result, sb_runs>>

\* engineer.py:262-274: Popen starts the subprocess, or raises (the outer
\* `except Exception` then returns "Execution failed")
Launch ==
    /\ sb_pc = "prepared"
    /\ popen_calls' = popen_calls + 1
    /\ \/ /\ proc' = "running"
          /\ sb_pc' = "communicate"
          /\ UNCHANGED sb_result
       \/ /\ sb_result' = LaunchFailureResult
          /\ sb_pc' = "returned"
          /\ UNCHANGED proc
    /\ UNCHANGED <<killed, elapsed, child_stdout, memory_used, sb_runs>>

\* a second of wall-clock time passes while the parent waits in communicate()
SecondPasses ==
    /\ sb_pc = "communicate"
    /\ proc = "running"
    /\ elapsed < MAX_EXECUTION_TIME
    /\ elapsed' = elapsed + 1
    /\ UNCHANGED <<sb_pc, proc, killed, child_stdout, memory_used, sb_result, sb_runs, popen_calls>>

\* the subprocess ends by itself, having written `out`
ChildExit(out) ==
    /\ sb_pc = "communicate"
    /\ proc = "running"
    /\ proc' = "exited"
    /\ child_stdout' = out
    /\ UNCHANGED <<sb_pc, killed, elapsed, memory_used, sb_result, sb_runs, popen_calls>>

\* engineer.py:277-300: communicate() returns once the subprocess has ended
\* (it waits for it, which reaps it); the rest of the try block follows
CommunicateReturns(mem) ==
    /\ sb_pc = "communicate"
    /\ proc = "exited"
    /\ proc' = "reaped"
    /\ memory_used' = mem
    /\ sb_result' = AfterCommunicate(child_stdout, mem)
    /\ sb_pc' = "returned"
    /\ UNCHANGED <<killed, elapsed, child_stdout, sb_runs, popen_calls>>

\* engineer.py:302-304: communicate() raises TimeoutExpired; proc.kill() sends
\* the signal and returns at once
TimeoutExpired ==
    /\ sb_pc = "communicate"
    /\ proc = "running"
    /\ elapsed = MAX_EXECUTION_TIME
    /\ killed' = TRUE
    /\ sb_result' = TimeoutResult
    /\ sb_pc' = "killed"
    /\ UNCHANGED <<proc, elapsed, child_stdout, memory_used, sb_runs, popen_calls>>

\* the signalled subprocess dies: it is a zombie until its parent waits for it
ChildDies ==
    /\ proc = "running"
    /\ killed
    /\ proc' = "exited"
    /\ UNCHANGED <<sb_pc, killed, elapsed, child_stdout, memory_used, sb_result, sb_runs, popen_calls>>

\* engineer.py:309-316: the function returns without proc.wait() or a second
\* communicate().  Dropping the last reference to the Popen object polls the
\* subprocess once without waiting: that reaps it only if it has died already.
ReturnAfterKill ==
    /\ sb_pc = "killed"
    /\ proc' = IF proc = "exited" THEN "reaped" ELSE proc
    /\ sb_pc' = "returned"
    /\ UNCHANGED <<killed, elapsed, child_stdout, memory_used, sb_result, sb_runs, popen_calls>>

\* the next execute_experiment calls _execute_windows again
NextExecution ==
    /\ sb_pc = "returned"
    /\ sb_runs < MaxSandboxRuns
    /\ sb_runs' = sb_runs + 1
    /\ sb_pc' = "prepared"
    /\ proc' = "none"
    /\ killed' = FALSE
    /\ elapsed' = 0
    /\ child_stdout' = <<>>
    /\ memory_used' = 0
    /\ sb_result' = InitialResult
    /\ popen_calls' = 0

SandboxInit ==
    /\ SandboxIdle
    /\ sb_runs = 1


(***************************************************************************)
(* The specifications.                                                     *)
(***************************************************************************)

RunIdle ==
    /\ pc = "stopped"
    /\ current_state = InitialState
    /\ state_file = InitialState
    /\ exp_writes = [id \in ExperimentIds |-> 0]
    /\ cur_iter = 0
    /\ hyp_n = 0
    /\ idx = 0
    /\ result = NoResult
    /\ analysis_score = 0
    /\ iteration_results = <<>>
    /\ exit_cause = "none"
    /\ report_written = FALSE
    /\ runs = 0

Init == RunInit /\ RecentInit /\ StoreInit /\ SandboxIdle /\ sb_runs = 0 /\ CompareIdle /\ ScoreIdle /\ HypothesesIdle /\ FailureIdle /\ PatternsIdle /\ FailuresIdle
notRunVars == <<recentVars, storeVars, sandboxVars, compareVars, scoreVars, hypVars, faVars, patVars, flVars>>
Next ==
    \/ LoopTest /\ UNCHANGED notRunVars
    \/ \E count \in HypothesisCounts : GenerateHypotheses(count) /\ UNCHANGED notRunVars
    \/ \E r \in ExperimentResults : Execute(r) /\ UNCHANGED notRunVars
    \/ \E expected \in BOOLEAN : Analyze(expected) /\ UNCHANGED notRunVars
    \/ SaveExperiment /\ UNCHANGED notRunVars
    \/ UpdateIteration /\ UNCHANGED notRunVars
    \/ UpdateTotal /\ UNCHANGED notRunVars
    \/ UpdateBest /\ UNCHANGED notRunVars
    \/ SaveState /\ UNCHANGED notRunVars
    \/ Interrupt /\ UNCHANGED notRunVars
    \/ Finally /\ UNCHANGED notRunVars
    \/ RunAgain /\ UNCHANGED notRunVars
Spec == Init /\ [][Next]_vars

\* The run loop with two results of execute_experiment: a success, and the
\* failure without an error text that _analyze_failure raises on.  The steps of
\* the process are taken when they can be (weak fairness); an interrupt and a
\* new run come from outside and may never come.
LoopResults ==
    {ExecuteExperiment(ParseOutput(<<ObjectLine(None, "dict")>>, 50000)),
     ExecuteExperiment(InitialResult)}
LoopStep ==
    \/ LoopTest /\ UNCHANGED notRunVars
    \/ \E count \in HypothesisCounts : GenerateHypotheses(count) /\ UNCHANGED notRunVars
    \/ \E r \in LoopResults : Execute(r) /\ UNCHANGED notRunVars
    \/ Analyze(FALSE) /\ UNCHANGED notRunVars
    \/ SaveExperiment /\ UNCHANGED notRunVars
    \/ UpdateIteration /\ UNCHANGED notRunVars
    \/ UpdateTotal /\ UNCHANGED notRunVars
    \/ SaveState /\ UNCHANGED notRunVars
    \/ Finally /\ UNCHANGED notRunVars
BestStep == UpdateBest /\ UNCHANGED notRunVars
NextLoop ==
    \/ LoopTest /\ UNCHANGED notRunVars
    \/ \E count \in HypothesisCounts : GenerateHypotheses(count) /\ UNCHANGED notRunVars
    \/ \E r \in LoopResults : Execute(r) /\ UNCHANGED notRunVars
    \/ Analyze(FALSE) /\ UNCHANGED notRunVars
    \/ SaveExperiment /\ UNCHANGED notRunVars
    \/ UpdateIteration /\ UNCHANGED notRunVars
    \/ UpdateTotal /\ UNCHANGED notRunVars
    \/ UpdateBest /\ UNCHANGED notRunVars
    \/ SaveState /\ UNCHANGED notRunVars
    \/ Interrupt /\ UNCHANGED notRunVars
    \/ Finally /\ UNCHANGED notRunVars
    \/ RunAgain /\ UNCHANGED notRunVars
\* Weak fairness of the steps of the process.  BestStep is enabled exactly when
\* pc = "update_best", and its fairness is written with that condition.
SpecLoop ==
    /\ Init
    /\ [][NextLoop]_vars
    /\ WF_vars(LoopStep)
    /\ ([]<>(pc # "update_best") \/ []<><<BestStep>>_vars)

notBestVars == <<recentVars, storeVars, sandboxVars, compareVars, scoreVars, hypVars, faVars, patVars, flVars>>
InitBest == RunIdle /\ RecentInit /\ StoreInit /\ SandboxIdle /\ sb_runs = 0 /\ CompareIdle /\ ScoreIdle /\ HypothesesIdle /\ FailureIdle /\ PatternsIdle /\ FailuresIdle
NextBest ==
    \/ \E count \in HypothesisCounts :
          \E scores \in [1..Min(count, EXPERIMENTS_PER_ITERATION) -> AnalysisScores] :
             FinishIteration(scores) /\ UNCHANGED notBestVars
SpecBest == InitBest /\ [][NextBest]_vars

InitRecent == RunIdle /\ RecentInit /\ StoreInit /\ SandboxIdle /\ sb_runs = 0 /\ CompareIdle /\ ScoreIdle /\ HypothesesIdle /\ FailureIdle /\ PatternsIdle /\ FailuresIdle
notRecentVars == <<runVars, storeVars, sandboxVars, compareVars, scoreVars, hypVars, faVars, patVars, flVars>>
NextRecent ==
    \/ \E count \in HypothesisCounts : CompleteIteration(count) /\ UNCHANGED notRecentVars
    \/ \E n \in 1..RECENT_DEFAULT_N : RecentQuery(n) /\ UNCHANGED notRecentVars
SpecRecent == InitRecent /\ [][NextRecent]_vars

InitStore == RunIdle /\ RecentInit /\ StoreInit /\ SandboxIdle /\ sb_runs = 0 /\ CompareIdle /\ ScoreIdle /\ HypothesesIdle /\ FailureIdle /\ PatternsIdle /\ FailuresIdle
notStoreVars == <<runVars, recentVars, sandboxVars, compareVars, scoreVars, hypVars, faVars, patVars, flVars>>
NextStore ==
    \/ \E c \in Contents : add_insight(c) /\ UNCHANGED notStoreVars
    \/ \E q \in Queries, limit \in Limits : get_relevant_insights(q, limit) /\ UNCHANGED notStoreVars
    \/ ClockTick /\ UNCHANGED notStoreVars
SpecStore == InitStore /\ [][NextStore]_vars

InitSandbox == RunIdle /\ RecentInit /\ StoreInit /\ SandboxInit /\ CompareIdle /\ ScoreIdle /\ HypothesesIdle /\ FailureIdle /\ PatternsIdle /\ FailuresIdle
notSandboxVars == <<runVars, recentVars, storeVars, compareVars, scoreVars, hypVars, faVars, patVars, flVars>>
NextSandbox ==
    \/ Launch /\ UNCHANGED notSandboxVars
    \/ SecondPasses /\ UNCHANGED notSandboxVars
    \/ \E out \in Stdouts : ChildExit(out) /\ UNCHANGED notSandboxVars
    \/ \E mem \in MemorySamples : CommunicateReturns(mem) /\ UNCHANGED notSandboxVars
    \/ TimeoutExpired /\ UNCHANGED notSandboxVars
    \/ ChildDies /\ UNCHANGED notSandboxVars
    \/ ReturnAfterKill /\ UNCHANGED notSandboxVars
    \/ NextExecution /\ UNCHANGED notSandboxVars
SpecSandbox == InitSandbox /\ [][NextSandbox]_vars

InitCompare == RunIdle /\ RecentInit /\ StoreInit /\ SandboxIdle /\ sb_runs = 0 /\ CompareInit /\ ScoreIdle /\ HypothesesIdle /\ FailureIdle /\ PatternsIdle /\ FailuresIdle
notCompareVars == <<runVars, recentVars, storeVars, sandboxVars, scoreVars, hypVars, faVars, patVars, flVars>>
NextCompare ==
    \/ Compare /\ UNCHANGED notCompareVars
SpecCompare == InitCompare /\ [][NextCompare]_vars

InitScore == RunIdle /\ RecentInit /\ StoreInit /\ SandboxIdle /\ sb_runs = 0 /\ CompareIdle /\ ScoreInit /\ HypothesesIdle /\ FailureIdle /\ PatternsIdle /\ FailuresIdle
notScoreVars == <<runVars, recentVars, storeVars, sandboxVars, compareVars, hypVars, faVars, patVars, flVars>>
NextScore ==
    \/ Score /\ UNCHANGED notScoreVars
SpecScore == InitScore /\ [][NextScore]_vars

InitHypotheses == RunIdle /\ RecentInit /\ StoreInit /\ SandboxIdle /\ sb_runs = 0 /\ CompareIdle /\ ScoreIdle /\ HypothesesInit /\ FailureIdle /\ PatternsIdle /\ FailuresIdle
notHypVars == <<runVars, recentVars, storeVars, sandboxVars, compareVars, scoreVars, faVars, patVars, flVars>>
NextHypotheses ==
    \/ \E sample \in TemplateSamples, base \in 0..MaxWindow :
          generate_hypotheses(sample, base) /\ UNCHANGED notHypVars
SpecHypotheses == InitHypotheses /\ [][NextHypotheses]_vars

InitFailure == RunIdle /\ RecentInit /\ StoreInit /\ SandboxIdle /\ sb_runs = 0 /\ CompareIdle /\ ScoreIdle /\ HypothesesIdle /\ FailureInit /\ PatternsIdle /\ FailuresIdle
notFaVars == <<runVars, recentVars, storeVars, sandboxVars, compareVars, scoreVars, hypVars, patVars, flVars>>
NextFailure ==
    \/ analyze_failure /\ UNCHANGED notFaVars
    \/ \E error \in FailureErrors : next_failure(error) /\ UNCHANGED notFaVars
SpecFailure == InitFailure /\ [][NextFailure]_vars

InitPatterns == RunIdle /\ RecentInit /\ StoreInit /\ SandboxIdle /\ sb_runs = 0 /\ CompareIdle /\ ScoreIdle /\ HypothesesIdle /\ FailureIdle /\ PatternsInit /\ FailuresIdle
notPatVars == <<runVars, recentVars, storeVars, sandboxVars, compareVars, scoreVars, hypVars, faVars, flVars>>
NextPatterns ==
    \E pattern_type \in PatternTypes, pattern \in RecordTexts :
        add_pattern(pattern_type, pattern) /\ UNCHANGED notPatVars
SpecPatterns == InitPatterns /\ [][NextPatterns]_vars

InitFailures == RunIdle /\ RecentInit /\ StoreInit /\ SandboxIdle /\ sb_runs = 0 /\ CompareIdle /\ ScoreIdle /\ HypothesesIdle /\ FailureIdle /\ PatternsIdle /\ FailuresInit
notFlVars == <<runVars, recentVars, storeVars, sandboxVars, compareVars, scoreVars, hypVars, faVars, patVars>>
NextFailures ==
    \E error_type \in FailureTypes, description \in FailureDescriptions,
       solution \in FailureSolutions :
        add_failure(error_type, description, solution) /\ UNCHANGED notFlVars
SpecFailures == InitFailures /\ [][NextFailures]_vars

\* Iteration after iteration of generate_hypotheses: the loop of main.py:213-216
\* goes on to the next iteration, so a step that can be taken is taken.
InitRounds == InitHypotheses
GenerateRound ==
    \E sample \in TemplateSamples, base \in 0..MaxWindow :
        generate_hypotheses(sample, base) /\ UNCHANGED notHypVars
NextRound ==
    \E recent \in SeqsUpTo(WindowExperiments, MaxWindow) :
        next_round(recent) /\ UNCHANGED notHypVars
NextRounds ==
    \/ \E sample \in TemplateSamples, base \in 0..MaxWindow :
          generate_hypotheses(sample, base) /\ UNCHANGED notHypVars
    \/ \E recent \in SeqsUpTo(WindowExperiments, MaxWindow) :
          next_round(recent) /\ UNCHANGED notHypVars
\* Weak fairness of both steps; GenerateRound is enabled exactly when
\* gh_out = NotGenerated, and its fairness is written with that condition.
SpecRounds ==
    /\ InitRounds
    /\ [][NextRounds]_vars
    /\ WF_vars(NextRound)
    /\ ([]<>(gh_out # NotGenerated) \/ []<><<GenerateRound>>_vars)

(***************************************************************************)
(* The claims.                                                             *)
(***************************************************************************)

\* C1 (as stated): no result the sandbox can return is fatal to the run loop:
\* the loop is left only by an interrupt or with iteration at MAX_ITERATIONS.
\* Checked under Spec.
C1_NoSandboxResultStopsTheLoop ==
    (pc \in {"finally", "stopped"} /\ exit_cause # "interrupt" /\ exit_cause # "none")
        => current_state.iteration >= MAX_ITERATIONS

\* C2 (as stated): save_experiment never writes an id that was written before,
\* over every run of the workspace.  Checked under Spec.
C2_ExperimentIdsAreNeverReused ==
    \A id \in ExperimentIds : exp_writes[id] <= 1

\* C3 (as stated): a process an interrupt has stopped leaves no partly executed
\* iteration: every experiment file belongs to an iteration the saved state
\* counts as done.  Checked under Spec.
C3_InterruptLeavesNoPartialIteration ==
    (pc = "stopped" /\ exit_cause = "interrupt")
        => \A id \in ExperimentIds : exp_writes[id] > 0 => id[1] < state_file.iteration

Reverse(s) == [k \in 1..Len(s) |-> s[Len(s) + 1 - k]]

\* C4 (as stated): get_recent_experiments(n) returns the n experiments created
\* last, newest first in creation order.  Checked under SpecRecent.
C4_RecentAreNewestFirst ==
    rc_n > 0 => rc_out = Take(Reverse(rc_files), rc_n)

\* C5: the store never holds more than MAX_INSIGHTS_STORED insights.  Checked
\* under SpecStore.
C5_CapacityBound == Len(insights) <= MAX_INSIGHTS_STORED

\* C5: an insertion pushed the store over the limit and it is full
C5_Witness ==
    /\ last_add.valid
    /\ last_add.evicted # {}
    /\ Len(insights) = MAX_INSIGHTS_STORED

\* C6: an add_insight that goes over the limit removes exactly the overflow,
\* and every insight that survives has a (relevance_score, timestamp) pair at
\* least that of every insight removed.  Checked under SpecStore.
C6_EvictedAreLowest ==
    last_add.valid =>
        /\ last_add.appended => Cardinality(last_add.evicted) = 1 - last_add.delta
        /\ \A e \in last_add.evicted :
              \A k \in 1..Len(insights) : KeyAtLeast(insights[k], e)

\* C6: an insertion evicted an insight that was in the store before it
C6_Witness ==
    /\ last_add.valid
    /\ \E e \in last_add.evicted : e.content # last_add.content

\* C7 (as stated): a second add_insight in a row, with the same content or
\* with one whose similarity to the first is above 0.9, leaves the count as the
\* first left it.  Checked under SpecStore.
C7_RepeatedInsertKeepsCount ==
    last_add.repeat # "none" => last_add.delta = 0

\* C7 (amended): ... with the same content, or with one whose similarity to
\* the first is above 0.9 when the first call appended its insight.
C7_RepeatedInsertKeepsCountWhenFirstStored ==
    (\/ last_add.repeat = "same"
     \/ last_add.repeat = "similar" /\ last_add.prev_appended)
        => last_add.delta = 0

\* C7: a content similar to that of the call before, which appended, was
\* rejected as its duplicate
C7_Witness ==
    /\ last_add.repeat = "similar"
    /\ last_add.prev_appended
    /\ ~last_add.appended
    /\ last_add.delta = 0

\* the experiment a was created (and appended) before b
CreatedBefore(a, b) == a[1] < b[1] \/ (a[1] = b[1] /\ a[2] < b[2])

\* C8: best_results has at most BEST_RESULTS_KEPT entries, in descending order
\* of score, entries of equal score in the order they were appended.  Checked
\* under SpecBest.
C8_BestResultsSortedAndCapped ==
    LET b == current_state.best_results IN
    /\ Len(b) <= BEST_RESULTS_KEPT
    /\ \A j, k \in 1..Len(b) :
          j < k => /\ b[j].score >= b[k].score
                   /\ b[j].score = b[k].score => CreatedBefore(b[j].id, b[k].id)

\* C8: the list is full after more positive scores than it keeps, and holds
\* two entries of one score
C8_Witness ==
    LET b == current_state.best_results IN
    /\ Len(b) = BEST_RESULTS_KEPT
    /\ current_state.total_experiments > BEST_RESULTS_KEPT
    /\ \E j, k \in 1..Len(b) : j < k /\ b[j].score = b[k].score

\* C9 (as stated): after a timeout the sandbox returns success = false with an
\* error that contains "timeout", and the subprocess no longer exists.  Checked
\* under SpecSandbox.
C9_TimeoutLeavesNoProcess ==
    (sb_pc = "returned" /\ killed) =>
        /\ ~sb_result.success
        /\ sb_result.error.some
        /\ Contains(Lower(sb_result.error.text), "timeout")
        /\ proc = "reaped"

\* the 1-based position of cur among the comparable times and itself in
\* ascending order: one more than the number of times below it
PositionAmong(cur, times) ==
    1 + Cardinality({k \in 1..Len(times) : times[k] < cur})

\* the recent list of the specification's example: 2.0, 3.0 and 5.0 seconds
ExampleRecent ==
    <<[success |-> TRUE, execution_time |-> 2000],
      [success |-> TRUE, execution_time |-> 3000],
      [success |-> TRUE, execution_time |-> 5000]>>

\* C10 (as stated): for any recent list and a finite current time,
\* performance_rank is the position of the current time among the comparable
\* times and is_improvement is rank <= floor(N / 2).  Checked under SpecCompare.
C10_RankIsPosition ==
    (cmp_out # NotCompared /\ cmp_current # Inf) =>
        LET times == ComparableTimes(cmp_recent) IN
        /\ cmp_out.performance_rank = PositionAmong(cmp_current, times)
        /\ cmp_out.is_improvement
             <=> (cmp_out.performance_rank <= (Len(times) + 1) \div 2)

\* C10 (amended): ... when at least one recent experiment is comparable (it
\* succeeded and carries an execution time); with none, performance_rank is 0
\* and is_improvement is false.  The example gives rank 1, better_than 3,
\* is_improvement true.
C10_RankIsPositionAmongPeers ==
    (cmp_out # NotCompared /\ cmp_current # Inf) =>
        LET times == ComparableTimes(cmp_recent) IN
        /\ times # <<>> =>
              /\ cmp_out.performance_rank = PositionAmong(cmp_current, times)
              /\ cmp_out.is_improvement
                   <=> (cmp_out.performance_rank <= (Len(times) + 1) \div 2)
        /\ times = <<>> =>
              /\ cmp_out.performance_rank = 0
              /\ ~cmp_out.is_improvement
        /\ (cmp_recent = ExampleRecent /\ cmp_current = 1000) =>
              /\ cmp_out.performance_rank = 1
              /\ cmp_out.better_than = 3
              /\ cmp_out.is_improvement

\* C10: the example has been compared
C10_Witness ==
    /\ cmp_recent = ExampleRecent
    /\ cmp_current = 1000
    /\ cmp_out # NotCompared
    /\ cmp_out.performance_rank = 1

\* the term the specification gives a value v with the thresholds lo and hi:
\* the bonus strictly below lo, the penalty strictly above hi, else nothing
TermOf(v, lo, hi, amount) == IF v < lo THEN amount ELSE IF v > hi THEN -amount ELSE 0

\* C11: the score of a result is 1.0, plus the speed term (+0.5 exactly when
\* execution_time < 1.0, -0.5 exactly when > 10.0), plus the memory term (+0.3
\* exactly when memory_mb < 100, -0.3 exactly when > 500), plus the terms for
\* expected outcomes and novelty; the boundary values get neither bonus nor
\* penalty.  Checked under SpecScore.
C11_TermsAreStrictAtTheBoundaries ==
    sc_score # -1 =>
        sc_score = 10 + TermOf(sc_result.metrics.execution_time, 1000, 10000, 5)
                      + TermOf(sc_result.metrics.memory_mb, 100000, 500000, 3)
                      + (IF sc_expected THEN 10 ELSE 0)
                      + (IF sc_result.output = "dict_timing" THEN 5 ELSE 0)

\* C11: a result of exactly 1.0 seconds and exactly 500 MB has been scored
C11_Witness ==
    /\ sc_score # -1
    /\ sc_result.metrics.execution_time = 1000
    /\ sc_result.metrics.memory_mb = 500000
    /\ ~sc_expected
    /\ sc_result.output = "dict"
    /\ sc_score = 10

\* the place of a generator in generation order
SourceRank(source) ==
    CASE source = "llm" -> 1 [] source = "template" -> 2 [] source = "mutation" -> 3
      [] OTHER -> 0

\* C12: generate_hypotheses returns at most 2 x EXPERIMENTS_PER_ITERATION
\* hypotheses in descending order of score; hypotheses of equal score keep
\* their generation order, which is oracle, template, mutation.  Checked under
\* SpecHypotheses.
C12_RankedStableAndCapped ==
    gh_out # NotGenerated =>
        /\ Len(gh_out) <= 2 * EXPERIMENTS_PER_ITERATION
        /\ \A j, k \in 1..Len(gh_out) :
              j < k => /\ gh_out[j].score >= gh_out[k].score
                       /\ gh_out[j].score = gh_out[k].score
                             => /\ gh_out[j].gen < gh_out[k].gen
                                /\ SourceRank(gh_out[j].source)
                                      <= SourceRank(gh_out[k].source)
        /\ \A k \in 1..Len(gh_out) : gh_candidates[gh_out[k].gen] = gh_out[k]

\* C12: more hypotheses were generated than are returned, and two of those
\* returned have one score
C12_Witness ==
    /\ gh_out # NotGenerated
    /\ Len(gh_candidates) > 2 * EXPERIMENTS_PER_ITERATION
    /\ Len(gh_out) = 2 * EXPERIMENTS_PER_ITERATION
    /\ \E j, k \in 1..Len(gh_out) : j < k /\ gh_out[j].score = gh_out[k].score

\* C13: when the oracle call ends without a reply (error status, connection
\* failure, exception), generate_hypotheses returns at least one hypothesis
\* with a non-empty description.  Checked under SpecHypotheses.
C13_UnavailableOracleStillYields ==
    (gh_out # NotGenerated /\ gh_outcome # "reply")
        => \E k \in 1..Len(gh_out) : gh_out[k].description # <<>>

\* C13: hypotheses were returned after a connection failure, a template
\* hypothesis among them
C13_Witness ==
    /\ gh_out # NotGenerated
    /\ gh_outcome = "connection_failure"
    /\ \E k \in 1..Len(gh_out) :
          gh_out[k].source = "template" /\ gh_out[k].description # <<>>

\* C20: the score of every candidate is 1.0 times 0.5 if its approach is that
\* of a failed experiment of the window, times 1.2 if it came from the oracle,
\* times 1.1 if it declares more than 2 metrics, and nothing else.  Scores are
\* in thousandths.  Checked under SpecHypotheses.
C20_ScoreIsProductOfFactors ==
    \A k \in 1..Len(gh_candidates) :
        LET h == gh_candidates[k]
            failed == \E j \in 1..Len(gh_recent) :
                         ~gh_recent[j].success /\ gh_recent[j].approach = h.approach
            a == IF failed THEN 5 ELSE 10
            b == IF h.source = "llm" THEN 12 ELSE 10
            c == IF h.metrics > 2 THEN 11 ELSE 10
        IN  h.score = a * b * c

\* C20: a candidate with all three factors has been scored 0.66
C20_Witness ==
    \E k \in 1..Len(gh_candidates) :
        /\ gh_candidates[k].source = "llm"
        /\ gh_candidates[k].metrics > 2
        /\ \E j \in 1..Len(gh_recent) :
              ~gh_recent[j].success /\ gh_recent[j].approach = gh_candidates[k].approach
        /\ gh_candidates[k].score = 660

\* C14: of two stored insights with the same usage_count, the one with the
\* older timestamp has a relevance_score at most that of the newer one.
\* Checked under SpecStore.
C14_OlderIsNotMoreRelevant ==
    \A j, k \in 1..Len(insights) :
        (/\ insights[j].usage_count = insights[k].usage_count
         /\ insights[j].timestamp < insights[k].timestamp)
            => insights[j].relevance_score <= insights[k].relevance_score

\* C14: two insights with the same usage_count, the older one a day older and
\* re-scored below the newer one
C14_Witness ==
    \E j, k \in 1..Len(insights) :
        /\ insights[j].usage_count = insights[k].usage_count
        /\ insights[j].timestamp < insights[k].timestamp
        /\ insights[j].relevance_score < insights[k].relevance_score

\* _execute_windows has returned after communicate() returned, within the
\* memory limit
ReturnedFromCommunicate ==
    /\ sb_pc = "returned"
    /\ proc = "reaped"
    /\ ~killed
    /\ memory_used <= MAX_MEMORY_MB * 1000

\* the lines of stdout that are not blank
WrittenLines == SelectSeq(child_stdout, LAMBDA l : l.kind # "blank")

\* C15 (as stated): the last line of stdout decides the result: a JSON object
\* gives its output and error, with success true exactly when its error is
\* absent; anything else gives success = true with the raw stdout as output.
\* Checked under SpecSandbox.
C15_LastLineDecidesTheResult ==
    (ReturnedFromCommunicate /\ WrittenLines # <<>>) =>
        LET last == WrittenLines[Len(WrittenLines)] IN
        IF last.kind = "object"
        THEN /\ sb_result.error = last.error
             /\ sb_result.output = (IF last.output = "null" THEN "none" ELSE last.output)
             /\ sb_result.success <=> ~last.error.some
        ELSE /\ sb_result.success
             /\ sb_result.output = "raw"

\* the ways an execution ends: communicate() returned, the timeout expired,
\* Popen raised
Completed == sb_pc = "returned" /\ proc = "reaped" /\ ~killed
TimedOut == sb_pc = "returned" /\ killed
Failed == sb_pc = "returned" /\ proc = "none"

C17_MetricsCarryTheMeasuredTime ==
    (ReturnedFromCommunicate /\ WrittenLines # <<>> /\ sb_result.success
        /\ WrittenLines[Len(WrittenLines)].kind = "object") =>
        /\ ExecuteExperiment(sb_result).metrics.execution_time
              = WrittenLines[Len(WrittenLines)].timing
        /\ ExecuteExperiment(sb_result).metrics.memory_mb = memory_used

\* C18: get_relevant_insights(query, limit) raises usage_count by one at exactly
\* the insights it returns and leaves it unchanged at every other insight, however
\* many insights are similar enough to the query.  Checked under SpecStore.
C18_UsageCountsOnlyTheReturned ==
    last_query.valid =>
        \A k \in 1..Len(last_query.usage_delta) :
            last_query.usage_delta[k] =
                IF k \in SeqToSet(last_query.returned) THEN 1 ELSE 0

\* C19: after every call of the store the document insights.json equals the
\* insights in memory, so a store loaded from it is the store in memory.
\* Checked under SpecStore.
C19_DocumentEqualsMemory ==
    insights_file = insights

\* the pooled candidates that are mutations
PooledMutations == SelectSeq(gh_candidates, LAMBDA h : h.source = "mutation")

\* a mutation of the given type is among the pooled candidates
MutationOfType(type) ==
    \E k \in 1..Len(PooledMutations) : PooledMutations[k].approach[1] = type

\* C21: the mutation of a round has one of the three archetypes, chosen at
\* random: when rounds with a mutation keep coming, then for each archetype there
\* is a round whose mutation has it.  Checked under SpecRounds.
C21_EveryArchetypeOccurs ==
    \A k \in 1..Len(MutationTypes) :
        ([]<>(PooledMutations # <<>>)) => <>MutationOfType(MutationTypes[k])

\* the first successful entry of the recent list
FirstSuccessful == CHOOSE k \in Successful(gh_recent) : \A j \in Successful(gh_recent) : k <= j

\* C22: when several recent experiments succeeded, the mutation is derived from
\* the hypothesis of the first successful entry of the recent list, not from
\* another one.  Checked under SpecHypotheses.
C22_MutationOfTheMostRecentSuccess ==
    (gh_out # NotGenerated /\ Successful(gh_recent) # {}) =>
        \A k \in 1..Len(PooledMutations) :
            \E j \in 1..Len(MutationTypes) :
                PooledMutations[k] =
                    MutationHypothesis(MutationTypes[j], gh_recent[FirstSuccessful])

\* C23: generate_hypotheses pools exactly one mutation candidate when an
\* experiment of the recent window succeeded, and none when none succeeded or
\* the window is empty.  Checked under SpecHypotheses.
C23_OneMutationIffASuccess ==
    gh_out # NotGenerated =>
        Len(PooledMutations) = (IF Successful(gh_recent) # {} THEN 1 ELSE 0)

C23_Witness ==
    /\ gh_out # NotGenerated
    /\ Cardinality(Successful(gh_recent)) = 2
    /\ Len(PooledMutations) = 1

\* the keyword occurs in the lower-cased error text
ErrorMentions(kw) ==
    \E k \in 1..Len(fa_error.text) : LowerWord(fa_error.text[k]) = kw

\* the analysis has the given type with its cause and suggestions
Classified(error_type, likely_cause, suggestions) ==
    /\ fa_analysis.error_type = error_type
    /\ fa_analysis.likely_cause = likely_cause
    /\ fa_analysis.suggestions = suggestions

\* C24: the error of a failed result is matched, whatever its case, against
\* timeout, then memory, then syntax or name, each with its fixed error_type,
\* cause and suggestions; an error that matches none is "unknown" with an empty
\* cause and no suggestions.  Checked under SpecFailure.
C24_FailureIsClassifiedByPriority ==
    fa_analysis # NotAnalyzed =>
        /\ ~fa_analysis.raised
        /\ ErrorMentions("timeout") =>
              Classified("timeout", "Algorithm complexity too high",
                         <<"Reduce problem size", "Optimize algorithm",
                           "Increase timeout limit">>)
        /\ (~ErrorMentions("timeout") /\ ErrorMentions("memory")) =>
              Classified("memory", "Excessive memory usage",
                         <<"Use memory-efficient data structures",
                           "Process data in chunks", "Reduce data size">>)
        /\ (~ErrorMentions("timeout") /\ ~ErrorMentions("memory")
              /\ (ErrorMentions("syntax") \/ ErrorMentions("name"))) =>
              Classified("code_error", "Code generation issue",
                         <<"Improve code generation prompts",
                           "Add better error handling", "Validate generated code">>)
        /\ (~ErrorMentions("timeout") /\ ~ErrorMentions("memory")
              /\ ~ErrorMentions("syntax") /\ ~ErrorMentions("name")) =>
              Classified("unknown", "", <<>>)

\* the records of a type keep their patterns and occurrences, but for position k
SameBut(old, new, k) ==
    /\ Len(new) >= Len(old)
    /\ \A j \in 1..Len(old) : j # k => new[j] = old[j]

\* what a call add_pattern(type, pattern) did to the records of the type
PatternCallEffect(old, new, pattern) ==
    \/ \E k \in 1..Len(old) :
          /\ SimilarRecords[old[k].pattern][pattern]
          /\ Len(new) = Len(old)
          /\ new[k] = [old[k] EXCEPT !.occurrences = @ + 1]
          /\ SameBut(old, new, k)
    \/ /\ new = Append(old, [pattern |-> pattern, occurrences |-> 1])
       /\ \A k \in 1..Len(old) : ~SimilarRecords[old[k].pattern][pattern]

\* C25: each add_pattern call either adds one to the occurrences of exactly one
\* similar record of the type or appends one record with occurrences 1; so
\* every record has occurrences >= 1 and the occurrences of a type sum to the
\* calls made for it.  Checked under SpecPatterns.
C25_OccurrencesCountTheCalls ==
    /\ [](\A t \in PatternTypes :
            /\ \A k \in 1..Len(patterns[t]) : patterns[t][k].occurrences >= 1
            /\ SumOccurrences(patterns[t]) = pattern_calls[t])
    /\ [][/\ PatternCallEffect(patterns[pt_call'.type], patterns'[pt_call'.type],
                               pt_call'.text)
          /\ \A t \in PatternTypes \ {pt_call'.type} : patterns'[t] = patterns[t]]_vars

C25_Witness ==
    /\ \E k \in 1..Len(patterns["type_a"]) : patterns["type_a"][k].occurrences >= 2
    /\ Len(patterns["type_a"]) >= 2
    /\ pattern_calls["type_b"] >= 1

\* C26: add_failure with a description similar to a record of the type adds no
\* record and adds one to that record's occurrences; it sets the record's
\* solution only when the record has none and the new one is not empty, so a
\* stored solution is never replaced.  Checked under SpecFailures.
C26_StoredSolutionIsKept ==
    [][LET old == failures[fl_call'.type]
           new == failures'[fl_call'.type]
       IN  /\ (\E k \in 1..Len(old) : SimilarRecords[old[k].description][fl_call'.text])
                 => \E k \in 1..Len(old) :
                       /\ SimilarRecords[old[k].description][fl_call'.text]
                       /\ Len(new) = Len(old)
                       /\ SameBut(old, new, k)
                       /\ new[k].description = old[k].description
                       /\ new[k].occurrences = old[k].occurrences + 1
                       /\ new[k].solution =
                            IF ~HasSolution(old[k].solution) /\ HasSolution(fl_call'.solution)
                            THEN fl_call'.solution
                            ELSE old[k].solution
           /\ \A t \in FailureTypes : \A k \in 1..Len(failures[t]) :
                 HasSolution(failures[t][k].solution)
                     => failures'[t][k].solution = failures[t][k].solution]_vars

\* a call with another solution has met a record that had one, and the record
\* has kept its own
C26_Witness ==
    /\ fl_call.type = "timeout"
    /\ HasSolution(fl_call.solution)
    /\ \E k \in 1..Len(failures["timeout"]) :
          /\ SimilarRecords[failures["timeout"][k].description][fl_call.text]
          /\ failures["timeout"][k].occurrences >= 2
          /\ HasSolution(failures["timeout"][k].solution)
          /\ failures["timeout"][k].solution # fl_call.solution

PersistedRecords == Cardinality({id \in ExperimentIds : exp_writes[id] > 0})

\* C28: whenever the state document is written, after an iteration or in the
\* finally block, its total_experiments is the number of experiment records
\* persisted so far.  Checked under Spec.
C28_TotalCountsThePersisted ==
    [][(pc = "save_state" \/ pc = "finally") =>
          (PersistedRecords)' = state_file'.total_experiments]_vars

\* C29: a result of execute_experiment with success = false carries an error
\* that is not empty, and one with success = true carries no error.  Checked
\* under SpecSandbox.
C29_SuccessAndErrorAgree ==
    sb_pc = "returned" =>
        LET r == ExecuteExperiment(sb_result) IN
        /\ ~r.success => (r.error.some /\ r.error.text # <<>>)
        /\ r.success => ~r.error.some

\* C30: after add_insight(c) for a content that is no duplicate of a stored
\* insight, an insight with content c is in the store, also when the insertion
\* evicts.  Checked under SpecStore.
C30_NewInsightIsStored ==
    (last_add.valid /\ last_add.appended) =>
        \E k \in 1..Len(insights) : insights[k].content = last_add.content

====
